---- MODULE Spec2Model ----
(***************************************************************************)
(* Change-detection / extraction / download pipeline of the web monitor.   *)
(*                                                                         *)
(* The committed relational store is `pages`, `changes`, `files`.  A       *)
(* check_page job runs in the single arq worker: check_page_for_changes    *)
(* uses the blocking `requests` client, so everything from the start of    *)
(* the job up to the `await asyncio.gather(...)` of download_files is one  *)
(* step of the event loop (check_page); the job resumes after the gather   *)
(* in a second step (check_page_resume).  Sessions are transactional       *)
(* (sessionmaker(autocommit=False)): a unit of work reaches the store at   *)
(* db.commit() or not at all.                                              *)
(*                                                                         *)
(* Spec follows the checks of one page of a site that serves any of four   *)
(* bodies.  SchedSpec follows one run of the cron job schedule_page_checks *)
(* over two pages together with their checks; there the job is taken in    *)
(* two steps (check_page_start, check_page_fetched) so that the state in   *)
(* which the worker is blocked in the page GET is visible.                 *)
(*                                                                         *)
(* Python's Optional[T] is modelled as a sequence of length 0 or 1.        *)
(* SHA-256 is modelled as a collision-free tagging of its input.           *)
(***************************************************************************)
EXTENDS Integers, Sequences, FiniteSets, TLC

(* ---------------------------- bounds ----------------------------------- *)
MaxTime == 1        \* the wall clock of Spec runs over 0..MaxTime
MaxChanges == 3     \* checks are no longer started once this many PageChange rows exist
MaxQueue == 1       \* queued check_page jobs per page
MaxInflight == 1    \* check_page jobs suspended in asyncio.gather
TicksPerSecond == 2 \* resolution of the wall clock: `now` counts ticks
MaxPages == 2      \* ids the primary key of monitored_pages hands out (ApiSpec)
MaxApiChanges == 1 \* page_changes rows while the API is in use (ApiSpec)
MaxLiveMinutes == 7 \* the wall clock of LiveSpec runs over this many minutes
MaxLiveQueue == 2  \* queued check_page jobs per page in LiveSpec

(* ---------------------------- time ------------------------------------- *)
\* datetime.timedelta(minutes=, hours=, days=, weeks=) in ticks
Seconds(n) == n * TicksPerSecond
Minutes(n) == Seconds(60 * n)
Hours(n) == Minutes(60 * n)
Days(n) == Hours(24 * n)
Weeks(n) == Days(7 * n)

\* strftime('%Y%m%d_%H%M%S'): the instant truncated to its second
Timestamp(t) == t \div Seconds(1)
\* strftime('%Y-%m-%d'): the instant truncated to its day
Today(t) == t \div Days(1)

(* ---------------------------- Optional --------------------------------- *)
None == <<>>
Some(x) == <<x>>
IsNone(o) == o = <<>>
Val(o) == o[1]

(* ---------------------------- URLs ------------------------------------- *)
\* A URL is (host, basename without extension, extension, query); a
\* relative reference has host = "".
Url(h, n, e, q) == [host |-> h, name |-> n, ext |-> e, query |-> q]

PageUrl == Url("site", "index", "", "")
U1 == Url("site", "report", "pdf", "")
U2 == Url("site", "data", "CSV", "")
U3 == Url("site", "report", "pdf", "v=2")
UAbout == Url("site", "about", "", "")
\* the pages of four other sites
PageUrlA == Url("a", "index", "", "")
PageUrlB == Url("b", "index", "", "")
PageUrlC == Url("c", "index", "", "")
PageUrlD == Url("d", "index", "", "")
Rel(u) == [u EXCEPT !.host = ""]

FileUrls == {U1, U2, U3}

\* urllib.parse.urljoin for a reference that is absolute or path-absolute
urljoin(base, ref) == IF ref.host = "" THEN [ref EXCEPT !.host = base.host] ELSE ref

\* str.lower() on the extensions and queries that occur
Lower(s) ==
    CASE s = "PDF" -> "pdf"
      [] s = "CSV" -> "csv"
      [] s = "Rtf" -> "rtf"
      [] s = "Download=1" -> "download=1"
      [] s = "ATTACHMENT=x" -> "attachment=x"
      [] OTHER -> s

\* bug: an extension of the list is missing
FILE_EXTENSIONS_short ==
    {"pdf", "doc", "docx", "xls", "xlsx", "ppt", "pptx", "csv", "txt", "zip", "rar",
     "tar", "gz", "json", "xml"}

FILE_EXTENSIONS ==
    {"pdf", "doc", "docx", "xls", "xlsx", "ppt", "pptx", "csv", "txt", "zip", "rar",
     "tar", "gz", "json", "xml", "rtf"}

\* os.path.splitext(path)[1][1:].lower(), None when the path has no extension
get_file_extension(url) == IF url.ext # "" THEN Some(Lower(url.ext)) ELSE None

\* `param in query.lower()` for the queries that occur
QueryContains(q, param) ==
    \/ q = "download=1" /\ param = "download"
    \/ q = "file=7" /\ param = "file"
    \/ q = "attachment" /\ param = "attachment"
    \/ q = "attachment=x" /\ param = "attachment"
    \/ q = "profile=1" /\ param = "file"

is_file_url(url) ==
    LET extension == get_file_extension(url) IN
    IF ~IsNone(extension) /\ Lower(Val(extension)) \in FILE_EXTENSIONS
    THEN TRUE
    ELSE IF url.query # "" /\ \E param \in {"download", "file", "attachment"} :
                                  QueryContains(Lower(url.query), param)
         THEN TRUE
         ELSE FALSE

\* os.path.basename(urlparse(url).path)
Basename(url) == IF url.ext = "" THEN url.name ELSE url.name \o "." \o url.ext

(* ---------------------------- documents -------------------------------- *)
\* A document is the sequence of its elements in document order.  `ref` is
\* the href of an <a>, or `src or data` of an <iframe>/<embed>/<object>.
\* `title` is the title attribute, if any.
Elem(t, c, r, x) == [tag |-> t, cls |-> c, ref |-> r, text |-> x, title |-> None]

B1 == << Elem("div", "c", None, "t1"), Elem("a", "n", Some(UAbout), "about") >>
B2 == << Elem("div", "c", None, "t1"), Elem("a", "n", Some(Rel(U1)), "Report") >>
B3 == << [Elem("iframe", "n", Some(U2), "") EXCEPT !.title = Some("Data sheet")],
         Elem("a", "n", Some(U1), ""),
         Elem("a", "n", Some(Rel(U1)), "again") >>
B4 == << Elem("div", "c", None, "t1"), Elem("a", "n", Some(U3), "Report v2") >>
EmptyBody == << >>

Bodies == {B1, B2, B3, B4}

\* the bodies the origin of a page serves over time
Served(url) ==
    IF url = PageUrl THEN Bodies ELSE IF url = PageUrlD THEN {B2} ELSE {B1}

\* the one CSS selector in use, ".c"
Sel == "c"
Selectors == {None, Some(Sel)}

\* soup.select(css_selector): the matching elements in document order
Select(content, sel) == SelectSeq(content, LAMBDA e : e.cls = sel)

sha256(content) == <<"sha256", content>>

\* soup.select raises on a selector that soupsieve cannot parse
SelectRaises(sel) == sel = "["

\* bug: no fallback, the elements are hashed though there are none
compute_content_hash_noFallback(content, css_selector) ==
    IF ~IsNone(css_selector) /\ Val(css_selector) # ""
    THEN IF SelectRaises(Val(css_selector)) THEN sha256(content)
         ELSE sha256(Select(content, Val(css_selector)))
    ELSE sha256(content)

compute_content_hash(content, css_selector) ==
    IF ~IsNone(css_selector) /\ Val(css_selector) # ""
    THEN IF SelectRaises(Val(css_selector)) THEN sha256(content)
         ELSE LET elements == Select(content, Val(css_selector)) IN
              IF elements # << >> THEN sha256(elements) ELSE sha256(content)
    ELSE sha256(content)

\* one file-link dict of extract_file_links
FileLink(absolute_url, title) ==
    [url |-> absolute_url, filename |-> Basename(absolute_url), title |-> title,
     extension |-> get_file_extension(absolute_url)]

\* bug: a URL seen before is not recognised
SeenUrls_none(acc) == {}

\* seen_urls of extract_file_links
SeenUrls(acc) == {acc[i].url : i \in 1..Len(acc)}

RECURSIVE ScanAnchors(_, _, _)
\* first loop of extract_file_links: soup.find_all('a', href=True)
ScanAnchors(content, base_url, acc) ==
    IF content = << >> THEN acc
    ELSE LET link == Head(content)
             absolute_url == urljoin(base_url, Val(link.ref))
             link_text == IF link.text # "" THEN link.text ELSE Basename(absolute_url)
         IN IF link.tag = "a" /\ ~IsNone(link.ref)
               /\ absolute_url \notin SeenUrls(acc) /\ is_file_url(absolute_url)
            THEN ScanAnchors(Tail(content), base_url,
                             Append(acc, FileLink(absolute_url, link_text)))
            ELSE ScanAnchors(Tail(content), base_url, acc)

RECURSIVE ScanEmbeds(_, _, _)
\* second loop: soup.find_all(['iframe', 'embed', 'object'])
ScanEmbeds(content, base_url, acc) ==
    IF content = << >> THEN acc
    ELSE LET tag == Head(content)
             absolute_url == urljoin(base_url, Val(tag.ref))
             title == IF ~IsNone(tag.title) THEN Val(tag.title) ELSE Basename(absolute_url)
         IN IF tag.tag \in {"iframe", "embed", "object"} /\ ~IsNone(tag.ref)
               /\ absolute_url \notin SeenUrls(acc) /\ is_file_url(absolute_url)
            THEN ScanEmbeds(Tail(content), base_url,
                            Append(acc, FileLink(absolute_url, title)))
            ELSE ScanEmbeds(Tail(content), base_url, acc)

extract_file_links(html_content, base_url) ==
    ScanEmbeds(html_content, base_url, ScanAnchors(html_content, base_url, << >>))

(* ---------------------------- the web ---------------------------------- *)
\* Response headers are the dict built by dict(response.headers): its keys
\* are the header names as the server spelled them, and a missing key reads
\* as None.  "Etag" is the spelling of servers that canonicalise header names.
HeaderNames == {"ETag", "Etag", "Last-Modified"}
NoHeaders == [n \in HeaderNames |-> None]
BothValidators ==
    [NoHeaders EXCEPT !["ETag"] = Some("e1"), !["Last-Modified"] = Some("m1")]
\* the validator headers a response may carry
ResponseHeaders ==
    {NoHeaders, BothValidators,
     [NoHeaders EXCEPT !["ETag"] = Some("e2")],
     [NoHeaders EXCEPT !["Etag"] = Some("e2")]}

\* the validator headers the origin of a page sends
Validators(url) ==
    IF url = PageUrlC THEN ResponseHeaders
    ELSE IF url = PageUrl THEN {NoHeaders, BothValidators} ELSE {NoHeaders}

\* the error statuses the origin of a page sends
ErrorStatuses(url) == IF url = PageUrl THEN {404} ELSE {}

\* What the origin may answer to the GET of a page.  `exc` is a transport
\* failure (timeout, DNS); a 304 is only sent to a conditional request and
\* carries no body.
PageResponses(url, headers) ==
    {[exc |-> TRUE, status |-> 0, text |-> EmptyBody, headers |-> NoHeaders]}
    \cup {[exc |-> FALSE, status |-> 200, text |-> b, headers |-> h] :
             b \in Served(url), h \in Validators(url)}
    \cup {[exc |-> FALSE, status |-> s, text |-> EmptyBody, headers |-> NoHeaders] :
             s \in ErrorStatuses(url)}
    \cup (IF ~IsNone(headers.IfNoneMatch) \/ ~IsNone(headers.IfModifiedSince)
          THEN {[exc |-> FALSE, status |-> 304, text |-> EmptyBody, headers |-> h] :
                   h \in Validators(url)}
          ELSE {})

Bytes == {"c1", "c2"}

\* What a file server may answer to the GET of a file link.
FileResponses ==
    {[exc |-> TRUE, status |-> 0, body |-> "c1"]}
    \cup {[exc |-> FALSE, status |-> 200, body |-> c] : c \in Bytes}
    \cup {[exc |-> FALSE, status |-> 203, body |-> "c1"]}
    \cup {[exc |-> FALSE, status |-> 404, body |-> "c1"]}

(* ---------------------------- fetcher ---------------------------------- *)
\* requests.Response.raise_for_status raises for 4xx and 5xx only
raise_for_status(status) == status >= 400 /\ status < 600

get_page_content(response) ==
    IF response.exc \/ raise_for_status(response.status)
    THEN [content |-> None, response_headers |-> NoHeaders]
    ELSE [content |-> Some(response.text), response_headers |-> response.headers]

\* conditional headers of check_page_for_changes; an empty value is falsy
ConditionalHeaders(page) ==
    [IfNoneMatch |-> page.last_etag, IfModifiedSince |-> page.last_modified]

(* ---------------------------- state ------------------------------------ *)
VARIABLES
    now,        \* the wall clock, datetime.now()
    pages,      \* committed monitored_pages rows, by id
    changes,    \* committed page_changes rows; the id of a row is its index
    files,      \* committed downloaded_files rows; the id of a row is its index
    queue,      \* number of queued check_page jobs, by page id
    inflight,   \* check_page jobs suspended in the gather of download_files, one GET
                \* issued for each of their tasks
    lastCheck,  \* the latest check_page job: what check_page_for_changes returned to
                \* it and the status of the response it got (0: no response)
    lastFetch,  \* history: body and selector of the latest check that returned, by page id
    fetchedOk,  \* history: file URLs whose GET returned a successful body in a
                \* download_files call that returned, by page id
    fetching,   \* the check_page job blocked in requests.get, if any: the event
                \* loop of the worker runs nothing else meanwhile
    lastTick,   \* history: the latest run of schedule_page_checks
    sent,       \* history: the calls of send_notifications, by their change id
    lastDownload, \* history: the latest download_files call that returned, by its
                \* change id, the bytes each of its GETs got, if any, whether
                \* each GET got a 2xx response, the URLs of the results it
                \* returned, and the path each download wrote its bytes to
    overlapped, \* history: pages of which a check started while another one
                \* of the same page was suspended
    page_seq,   \* the last id the monitored_pages primary key handed out
    reply,      \* the response to the latest request of the API
    sweep,      \* the call of check_all_pages: the active pages it loaded, those
                \* it has still to check and the result entries so far
    fn_call     \* a call of one of the pure functions: its arguments and, once
                \* it has returned, its result

vars == <<now, pages, changes, files, queue, inflight, lastCheck, lastFetch, fetchedOk,
          fetching, lastTick, sent, lastDownload, overlapped, page_seq, reply, sweep,
          fn_call>>

PageIds == {1}

\* a monitored_pages row as create_page stores it
NewPage(name, url, css_selector, frequency, is_active) ==
    [name |-> name, url |-> url, css_selector |-> css_selector,
     frequency |-> frequency, is_active |-> is_active,
     last_checked_at |-> None, last_changed_at |-> None, last_content_hash |-> None,
     last_etag |-> None, last_modified |-> None]

\* no run of schedule_page_checks yet
NoTick == [at |-> None, outcome |-> "none", due |-> {}, enqueued |-> {},
           failed |-> None]

NoDownload == [change |-> None, bodies |-> << >>, got_2xx |-> << >>,
               returned |-> << >>, written |-> << >>]

\* no request yet; `result` holds the keys of the "result" object of a reply
NoReply == [route |-> "none", status_code |-> 0, detail |-> "", result |-> {},
            page_id |-> 0]

\* bug: the new objects are never added to the session
AddRows_none(table, rows) == table

\* bug: the latest row of the table is overwritten by the first new one
AddRows_upsert(table, rows) ==
    IF table # << >> /\ rows # << >>
    THEN [table EXCEPT ![Len(table)] = rows[1]] \o Tail(rows)
    ELSE table \o rows

\* db.add of new objects and the commit: INSERTs, the rows there stay
AddRows(table, rows) == table \o rows

\* no call of a pure function
NoCall == [fn |-> "none", url |-> PageUrl, content |-> << >>, css_selector |-> None,
           result |-> None]

\* no call of check_all_pages yet
NoSweep == [state |-> "idle", pages |-> << >>, todo |-> << >>, results |-> << >>]

NoCheck == [page |-> 0, status |-> 0, outcome |-> "none", changed |-> FALSE,
            change |-> None, file_links |-> << >>,
            request |-> [IfNoneMatch |-> None, IfModifiedSince |-> None],
            response_headers |-> NoHeaders]

Init ==
    /\ now = 0
    /\ pages \in [PageIds -> {NewPage("My Page", PageUrl, sel, "hourly", act) :
                                  sel \in Selectors, act \in BOOLEAN}]
    /\ changes = << >>
    /\ files = << >>
    /\ queue = [p \in PageIds |-> 0]
    /\ inflight = {}
    /\ lastCheck = NoCheck
    /\ lastFetch = [p \in PageIds |-> None]
    /\ fetchedOk = [p \in PageIds |-> {}]
    /\ fetching = None
    /\ lastTick = NoTick
    /\ sent = << >>
    /\ lastDownload = NoDownload
    /\ overlapped = {}
    /\ page_seq = 1
    /\ reply = NoReply
    /\ sweep = NoSweep
    /\ fn_call = NoCall

(* ---------------------------- change detector -------------------------- *)
\* The unit of work check_page_for_changes builds in its session for `page`
\* (row id page_id) at time t, given the response to its GET; change_id is
\* the id the flush gives the new page_changes row.  `page` is the row to
\* commit, `added` the page_changes rows to commit.
\* bug: the timestamp of the attempt is not recorded
TouchChecked_skipped(page, t) == page

\* bug: the attempt is also recorded as a change
TouchChecked_asChange(page, t) ==
    [page EXCEPT !.last_checked_at = Some(t), !.last_changed_at = Some(t)]

\* page.last_checked_at = datetime.now()
TouchChecked(page, t) == [page EXCEPT !.last_checked_at = Some(t)]

\* bug: every fetched body counts as a change
HashDiffers_always(page, content_hash) == TRUE

\* page.last_content_hash is None or page.last_content_hash != content_hash
HashDiffers(page, content_hash) ==
    IsNone(page.last_content_hash) \/ Val(page.last_content_hash) # content_hash

\* bug: the hash is not stored
MarkChanged_noHash(page, content_hash, t) == [page EXCEPT !.last_changed_at = Some(t)]

\* bug: last_changed_at is not set
MarkChanged_noTimestamp(page, content_hash, t) ==
    [page EXCEPT !.last_content_hash = Some(content_hash)]

\* the two assignments of the changed branch
MarkChanged(page, content_hash, t) ==
    [page EXCEPT !.last_content_hash = Some(content_hash), !.last_changed_at = Some(t)]

check_page_for_changes(page, page_id, response, t, change_id) ==
    LET fetched == get_page_content(response)
        content == fetched.content
        response_headers == fetched.response_headers
        page1 == TouchChecked(page, t)
    IN
    IF IsNone(content)
    THEN [page |-> page1, added |-> << >>, outcome |-> "NoContent",
          changed |-> FALSE, change |-> None, file_links |-> << >>]
    ELSE
    LET etag == response_headers["ETag"]
        last_modified == response_headers["Last-Modified"]
        page2 == [page1 EXCEPT
                    !.last_etag = IF ~IsNone(etag) THEN etag ELSE @,
                    !.last_modified = IF ~IsNone(last_modified) THEN last_modified ELSE @]
        content_hash == compute_content_hash(Val(content), page.css_selector)
    IN
    IF HashDiffers(page2, content_hash)
    THEN LET page3 == MarkChanged(page2, content_hash, t)
             \* the details are built after last_content_hash was assigned
             change == [page_id |-> page_id, change_type |-> "content_changed",
                        details |-> [previous_hash |-> page3.last_content_hash,
                                     new_hash |-> content_hash]]
         IN [page |-> page3, added |-> << change >>, outcome |-> "Changed",
             changed |-> TRUE, change |-> Some(change_id),
             file_links |-> extract_file_links(Val(content), page.url)]
    ELSE [page |-> page2, added |-> << >>, outcome |-> "Unchanged",
          changed |-> FALSE, change |-> None, file_links |-> << >>]

(* ---------------------------- downloader ------------------------------- *)
FilesOf(rows, page_id) == {i \in 1..Len(rows) : rows[i].page_id = page_id}

\* bug: the stored rows are not consulted
existing_urls_none(rows, page_id) == {}

\* existing_urls and existing_hashes of download_files
existing_urls(rows, page_id) == {rows[i].original_url : i \in FilesOf(rows, page_id)}
existing_hashes(rows, page_id) ==
    {Val(rows[i].content_hash) : i \in {k \in FilesOf(rows, page_id) : ~IsNone(rows[k].content_hash)}}

\* bug: the seen-URL test is dropped
DownloadTasks_all(file_links, seen_urls) == file_links

\* the links for which download_files creates a download task
DownloadTasks(file_links, seen_urls) ==
    SelectSeq(file_links, LAMBDA file_info : file_info.url \notin seen_urls)

\* bug: the hash is taken of the URL, not of the bytes
download_file_hashOfUrl(file_info, response) ==
    [url |-> file_info.url, filename |-> file_info.filename,
     download_path |-> file_info.download_path,
     success |-> ~(response.exc \/ response.status # 200),
     content_hash |-> IF response.exc \/ response.status # 200 THEN None
                      ELSE Some(sha256(file_info.url.name))]

\* result of download_file for one task, given the server's response
download_file(file_info, response) ==
    IF response.exc \/ response.status # 200
    THEN [url |-> file_info.url, filename |-> file_info.filename,
          download_path |-> file_info.download_path, success |-> FALSE,
          content_hash |-> None]
    ELSE [url |-> file_info.url, filename |-> file_info.filename,
          download_path |-> file_info.download_path, success |-> TRUE,
          content_hash |-> Some(sha256(response.body))]

\* bug: one failed download discards the batch
SuccessfulDownloads_abort(download_results, seen_hashes) ==
    IF \E i \in 1..Len(download_results) : ~download_results[i].success
    THEN << >>
    ELSE SelectSeq(download_results,
                   LAMBDA result : Val(result.content_hash) \notin seen_hashes)

RECURSIVE SuccessfulDownloads(_, _)
\* the result loop of download_files: the results it keeps, in order
SuccessfulDownloads(download_results, seen_hashes) ==
    IF download_results = << >> THEN << >>
    ELSE LET result == Head(download_results)
             rest == SuccessfulDownloads(Tail(download_results), seen_hashes)
         IN IF result.success /\ Val(result.content_hash) \notin seen_hashes
            THEN << result >> \o rest
            ELSE rest

\* bug: the row does not say which change it belongs to
DbFile_noChange(page_id, change_id, result) ==
    [page_id |-> page_id, change_id |-> None, original_url |-> result.url,
     original_filename |-> result.filename, stored_filename |-> result.download_path,
     content_hash |-> result.content_hash]

\* the downloaded_files row created for a kept result
DbFile(page_id, change_id, result) ==
    [page_id |-> page_id, change_id |-> change_id, original_url |-> result.url,
     original_filename |-> result.filename, stored_filename |-> result.download_path,
     content_hash |-> result.content_hash]

\* bug: every row is committed on its own, and the last commit may fail
Commit_perRow(rows, commit_ok) ==
    IF commit_ok THEN rows ELSE SubSeq(rows, 1, Len(rows) - 1)

\* db.commit() of download_files: the rows added in the result loop become
\* visible together, or the commit raises and none does
Commit(rows, commit_ok) == IF commit_ok THEN rows ELSE << >>

\* `if change and downloaded_files:` of check_page
Notifies(change, downloaded_files) == ~IsNone(change) /\ downloaded_files # << >>

(* ---------------------------- scheduler -------------------------------- *)
\* frequency_map of schedule_page_checks
frequency_map ==
    [f \in {"5_minutes", "15_minutes", "30_minutes", "hourly", "daily", "weekly"} |->
        CASE f = "5_minutes" -> Minutes(5)
          [] f = "15_minutes" -> Minutes(15)
          [] f = "30_minutes" -> Minutes(30)
          [] f = "hourly" -> Hours(1)
          [] f = "daily" -> Days(1)
          [] f = "weekly" -> Weeks(1)]

\* frequency_map.get(page.frequency, timedelta(hours=1))
Interval(frequency) ==
    IF frequency \in DOMAIN frequency_map THEN frequency_map[frequency] ELSE Hours(1)

\* bug: a page is only due after its next check time
IsDue_strict(page, t) ==
    IsNone(page.last_checked_at)
    \/ t > Val(page.last_checked_at) + Interval(page.frequency)

\* the two tests of the loop of schedule_page_checks, at time t
IsDue(page, t) ==
    IsNone(page.last_checked_at)
    \/ t >= Val(page.last_checked_at) + Interval(page.frequency)

\* bug: the query does not filter
ActivePages_all(rows) == DOMAIN rows

\* the rows of db.query(MonitoredPage).filter(MonitoredPage.is_active == True)
ActivePages(rows) == {p \in DOMAIN rows : rows[p].is_active}

\* the orders in which a query without ORDER BY may return the rows S
Orderings(S) ==
    {order \in [1..Cardinality(S) -> S] :
        \A i, j \in 1..Cardinality(S) : i # j => order[i] # order[j]}

\* the pages enqueued by the loop over the due pages `due` when the k-th
\* enqueue_job raises (k = 0: none raises): the except clause is outside
\* the loop, the pages after the k-th are not reached
Enqueued(due, k) ==
    IF k = 0 THEN {due[i] : i \in 1..Len(due)} ELSE {due[i] : i \in 1..(k - 1)}

(* ---------------------------- paths ------------------------------------ *)
\* re.sub(r'[^\w\-_]', '_', page.name) on the names that occur
Sanitize(name) == IF name = "My Page" THEN "My_Page" ELSE name

\* os.path.splitext of the basename of url
splitext(url) == <<url.name, IF url.ext = "" THEN "" ELSE "." \o url.ext>>

\* get_download_path at time t; filename is (base_name, timestamp, ext)
get_download_path(page, filename, t) ==
    LET dir_name == IF page.name # "" THEN Sanitize(page.name) ELSE page.url.host
    IN [dir_name |-> dir_name, today |-> Today(t), filename |-> filename]

\* the task loop of download_files at time t: {**file_info, 'download_path':
\* download_path} with the name f"{base_name}_{timestamp}{ext}"
WithDownloadPath(page, file_info, t) ==
    LET base_name == splitext(file_info.url)[1]
        ext == splitext(file_info.url)[2]
        filename == <<base_name, Timestamp(t), ext>>
    IN [url |-> file_info.url, filename |-> file_info.filename, title |-> file_info.title,
        extension |-> file_info.extension,
        download_path |-> get_download_path(page, filename, t)]

(* ---------------------------- actions ---------------------------------- *)
\* the clock of the change-detection runs
Tick ==
    /\ now < MaxTime
    /\ now' = now + 1
    /\ UNCHANGED <<pages, changes, files, queue, inflight, lastCheck, lastFetch, fetchedOk,
                   fetching, lastTick, sent, lastDownload, overlapped, page_seq, reply, sweep,
                   fn_call>>

\* POST /pages/{page_id}/check: enqueue a check_page job for an existing
\* page and answer with the id of the job
check_page_now(page_id) ==
    /\ IF page_id \notin DOMAIN pages
       THEN /\ reply' = [NoReply EXCEPT !.route = "check_page_now",
                                        !.status_code = 404,
                                        !.detail = "Page not found"]
            /\ UNCHANGED queue
       ELSE /\ queue[page_id] < MaxQueue
            /\ queue' = [queue EXCEPT ![page_id] = @ + 1]
            /\ reply' = [NoReply EXCEPT !.route = "check_page_now",
                                        !.status_code = 200,
                                        !.result = {"job_id", "page_id"},
                                        !.page_id = page_id]
    /\ UNCHANGED <<fn_call, now, pages, changes, files, inflight, lastCheck, lastFetch, fetchedOk,
                   fetching, lastTick, sent, lastDownload, overlapped, page_seq, sweep>>

\* The cron job: a run is at least a minute after the one before.  The
\* k-th enqueue_job of the run may raise (k = 0: none does).
schedule_page_checks ==
    /\ IsNone(fetching)
    /\ IF IsNone(lastTick.at) THEN TRUE ELSE now >= Val(lastTick.at) + Minutes(1)
    /\ \E order \in Orderings(ActivePages(pages)) :
        LET due == SelectSeq(order, LAMBDA p : IsDue(pages[p], now)) IN
        \E k \in 0..Len(due) :
            /\ queue' = [p \in DOMAIN queue |->
                            IF p \in Enqueued(due, k) THEN queue[p] + 1 ELSE queue[p]]
            /\ lastTick' = [at |-> Some(now),
                            outcome |-> IF k = 0 THEN "scheduled" ELSE "error",
                            due |-> {due[i] : i \in 1..Len(due)},
                            enqueued |-> Enqueued(due, k),
                            failed |-> IF k = 0 THEN None ELSE Some(due[k])]
    /\ UNCHANGED <<fn_call, now, pages, changes, files, inflight, lastCheck, lastFetch, fetchedOk,
                   fetching, sent, lastDownload, overlapped, page_seq, reply, sweep>>

\* bug: the skipped check is recorded as an attempt
CheckSkipped_touched(page_id) ==
    /\ ~pages[page_id].is_active
    /\ lastCheck' = [NoCheck EXCEPT !.page = page_id, !.outcome = "Skipped"]
    /\ pages' = [pages EXCEPT ![page_id] = TouchChecked(@, now)]
    /\ UNCHANGED <<changes, files, inflight, lastFetch, fetchedOk, overlapped>>

\* check_page finds the page inactive
CheckSkipped(page_id) ==
    /\ ~pages[page_id].is_active
    /\ lastCheck' = [NoCheck EXCEPT !.page = page_id, !.outcome = "Skipped"]
    /\ UNCHANGED <<pages, changes, files, inflight, lastFetch, fetchedOk, overlapped>>

\* a check of page_id starts while another one of it is suspended
Overlaps(page_id) == \E job \in inflight : job.page_id = page_id

\* bug: the hash is committed on its own before the change row is added
CheckCommitFails_partial(page_id) ==
    /\ pages[page_id].is_active
    /\ lastCheck' = [NoCheck EXCEPT !.page = page_id, !.outcome = "Error"]
    /\ lastFetch' = [lastFetch EXCEPT ![page_id] = None]
    /\ \E response \in PageResponses(pages[page_id].url, ConditionalHeaders(pages[page_id])) :
          pages' = [pages EXCEPT ![page_id] =
                      check_page_for_changes(pages[page_id], page_id, response, now,
                                             Len(changes) + 1).page]
    /\ overlapped' = IF Overlaps(page_id) THEN overlapped \cup {page_id} ELSE overlapped
    /\ UNCHANGED <<changes, files, inflight, fetchedOk>>

\* check_page_for_changes raises at its commit (or the worker dies before
\* it): the session is rolled back, nothing of the unit of work is stored
CommitFails(page_id) ==
    /\ lastCheck' = [NoCheck EXCEPT !.page = page_id, !.outcome = "Error"]
    /\ lastFetch' = [lastFetch EXCEPT ![page_id] = None]
    /\ overlapped' = IF Overlaps(page_id) THEN overlapped \cup {page_id} ELSE overlapped
    /\ UNCHANGED <<pages, changes, files, inflight, fetchedOk>>

\* the same in a check_page job, which has found the page active
CheckCommitFails(page_id) ==
    /\ pages[page_id].is_active
    /\ CommitFails(page_id)

\* check_page_for_changes commits and returns to `caller`; download_files
\* runs up to its gather
Commits(page_id, caller) ==
    /\ \E response \in PageResponses(pages[page_id].url, ConditionalHeaders(pages[page_id])) :
        LET page == pages[page_id]
            r == check_page_for_changes(page, page_id, response, now, Len(changes) + 1)
            links == DownloadTasks(r.file_links, existing_urls(files, page_id))
            tasks == [i \in 1..Len(links) |-> WithDownloadPath(r.page, links[i], now)]
            job == [page_id |-> page_id, change_id |-> r.change, tasks |-> tasks,
                    seen_hashes |-> existing_hashes(files, page_id),
                    caller |-> caller]
        IN /\ pages' = [pages EXCEPT ![page_id] = r.page]
           /\ changes' = AddRows(changes, r.added)
           /\ lastCheck' = [page |-> page_id, status |-> response.status,
                            outcome |-> r.outcome, changed |-> r.changed,
                            change |-> r.change, file_links |-> r.file_links,
                            request |-> ConditionalHeaders(page),
                            response_headers |->
                                get_page_content(response).response_headers]
           /\ lastFetch' = [lastFetch EXCEPT ![page_id] =
                               IF r.outcome = "NoContent" THEN None
                               ELSE Some([body |-> response.text,
                                          css_selector |-> page.css_selector])]
           /\ IF r.changed /\ r.file_links # << >> /\ tasks # << >>
              THEN inflight' = inflight \cup {job}
              ELSE UNCHANGED inflight
    /\ overlapped' = IF Overlaps(page_id) THEN overlapped \cup {page_id} ELSE overlapped
    /\ UNCHANGED <<files, fetchedOk>>

\* the same in a check_page job, which has found the page active
CheckCommits(page_id) ==
    /\ pages[page_id].is_active
    /\ Commits(page_id, "check_page")

\* the worker may start a queued check_page job for page_id
Startable(page_id) ==
    /\ queue[page_id] > 0
    /\ Len(changes) < MaxChanges
    /\ Cardinality({job \in inflight : job.page_id = page_id}) < MaxInflight

\* The arq worker runs a queued check_page job up to its first await that
\* yields: the GET of the page is a blocking call.
check_page(page_id) ==
    /\ Startable(page_id)
    /\ queue' = [queue EXCEPT ![page_id] = @ - 1]
    /\ UNCHANGED <<fn_call, now, fetching, lastTick, sent, lastDownload, page_seq, reply, sweep>>
    /\ \/ CheckSkipped(page_id)
       \/ CheckCommitFails(page_id)
       \/ CheckCommits(page_id)

\* The same job in two steps, the second one when requests.get returns:
\* between them the event loop of the worker is blocked.
check_page_start(page_id) ==
    /\ IsNone(fetching)
    /\ Startable(page_id)
    /\ queue' = [queue EXCEPT ![page_id] = @ - 1]
    /\ UNCHANGED <<fn_call, now, lastTick, sent, lastDownload, page_seq, reply, sweep>>
    /\ IF pages[page_id].is_active
       THEN /\ fetching' = Some(page_id)
            /\ UNCHANGED <<pages, changes, files, inflight, lastCheck, lastFetch, fetchedOk,
                           overlapped>>
       ELSE /\ CheckSkipped(page_id)
            /\ UNCHANGED fetching

check_page_fetched(page_id) ==
    /\ fetching = Some(page_id)
    /\ fetching' = None
    /\ UNCHANGED <<fn_call, now, queue, lastTick, sent, lastDownload, page_seq, reply, sweep>>
    /\ \/ CheckCommitFails(page_id)
       \/ CheckCommits(page_id)

\* bug: one transaction for the check and its downloads, undone as a whole
Committed_oneTransaction(rows, commit_ok) == IF commit_ok THEN rows ELSE << >>

\* The page_changes rows when download_files ends: check_page_for_changes
\* committed them before it returned, the rollback of a later transaction
\* does not reach them.
Committed(rows, commit_ok) == rows

\* the entries of the list check_all_pages returns
ResultEntry(page_id, changed, files_downloaded) ==
    [page_id |-> page_id, error |-> FALSE, changed |-> changed,
     files_downloaded |-> files_downloaded]
ErrorEntry(page_id) ==
    [page_id |-> page_id, error |-> TRUE, changed |-> FALSE, files_downloaded |-> 0]

\* check_all_pages appends the entry of the page it has checked
Swept(call, entry) ==
    [call EXCEPT !.todo = Tail(@), !.results = Append(@, entry)]

\* The handler of check_all_pages reads page.name of a page whose row is
\* gone: the attributes of the object are expired after the commit or the
\* rollback before, the refresh finds no row and raises in the handler.
SweepRaised(call) == [call EXCEPT !.state = "raised", !.todo = << >>, !.results = << >>]

\* the gather of download_files returns: result loop, commit, return; then
\* check_page notifies when the list it got is not empty, and
\* check_all_pages appends its entry
check_page_resume(job) ==
    /\ IsNone(fetching)
    /\ job \in inflight
    /\ inflight' = inflight \ {job}
    /\ \E responses \in [1..Len(job.tasks) -> FileResponses], commit_ok \in BOOLEAN :
        \* the foreign keys of the new rows need the page to be there still
        /\ commit_ok => job.page_id \in DOMAIN pages
        /\ LET download_results    == [i \in 1..Len(job.tasks) |->
                                       download_file(job.tasks[i], responses[i])]
               successful_downloads == SuccessfulDownloads(download_results, job.seen_hashes)
               rows == [i \in 1..Len(successful_downloads) |->
                           DbFile(job.page_id, job.change_id, successful_downloads[i])]
               downloaded_files == IF commit_ok THEN successful_downloads ELSE << >>
           IN /\ files' = AddRows(files, Commit(rows, commit_ok))
              /\ changes' = Committed(changes, commit_ok)
              /\ fetchedOk' = IF commit_ok
                              THEN [fetchedOk EXCEPT ![job.page_id] =
                                      @ \cup {download_results[i].url :
                                                i \in {k \in 1..Len(job.tasks) :
                                                         download_results[k].success}}]
                              ELSE fetchedOk
              /\ sent' = IF job.caller = "check_page"
                            /\ Notifies(job.change_id, downloaded_files)
                         THEN Append(sent, Val(job.change_id))
                         ELSE sent
              /\ sweep' =
                    IF job.caller # "check_all_pages" THEN sweep
                    ELSE IF commit_ok
                    THEN Swept(sweep, ResultEntry(job.page_id, TRUE,
                                                  Len(downloaded_files)))
                    ELSE IF job.page_id \in DOMAIN pages
                    THEN Swept(sweep, ErrorEntry(job.page_id))
                    ELSE SweepRaised(sweep)
              /\ lastDownload' =
                    IF commit_ok
                    THEN [change |-> job.change_id,
                          bodies |-> [i \in 1..Len(job.tasks) |->
                                        IF download_results[i].success
                                        THEN Some(responses[i].body) ELSE None],
                          got_2xx |-> [i \in 1..Len(job.tasks) |->
                                         /\ ~responses[i].exc
                                         /\ responses[i].status >= 200
                                         /\ responses[i].status < 300],
                          returned |-> [i \in 1..Len(downloaded_files) |->
                                          downloaded_files[i].url],
                          written |-> [i \in 1..Len(job.tasks) |->
                                         IF download_results[i].success
                                         THEN Some(job.tasks[i].download_path)
                                         ELSE None]]
                    ELSE lastDownload
    /\ UNCHANGED <<fn_call, now, pages, queue, lastCheck, lastFetch, fetching, lastTick,
                   overlapped, page_seq, reply>>

Next ==
    \/ Tick
    \/ \E page_id \in DOMAIN pages : check_page_now(page_id)
    \/ \E page_id \in DOMAIN pages : check_page(page_id)
    \/ \E job \in inflight : check_page_resume(job)

Spec == Init /\ [][Next]_vars

(* ---------------------------- the scheduler runs ----------------------- *)
\* Two pages of two other sites.  Page 1 has any frequency value, "monthly"
\* being one the enum does not know, and was either never checked or
\* checked at time 0 (a fetch that failed leaves nothing but that
\* timestamp); the instant of the cron run is around the end of the
\* interval of page 1.  Their sites serve one body without file links.
SchedPageIds == {1, 2}
Frequencies == DOMAIN frequency_map \cup {"monthly"}
SchedTimes(f) ==
    {0, Interval(f) - 1, Interval(f)}
    \cup (IF f = "hourly" THEN {Minutes(59), Minutes(61)} ELSE {})

SchedInit ==
    /\ \E f \in Frequencies, last \in {None, Some(0)}, act1, act2 \in BOOLEAN :
          /\ now \in SchedTimes(f)
          /\ pages = (1 :> [NewPage("My Page", PageUrlA, None, f, act1)
                             EXCEPT !.last_checked_at = last])
                    @@ (2 :> NewPage("", PageUrlB, None, "hourly", act2))
    /\ changes = << >>
    /\ files = << >>
    /\ queue = [p \in SchedPageIds |-> 0]
    /\ inflight = {}
    /\ lastCheck = NoCheck
    /\ lastFetch = [p \in SchedPageIds |-> None]
    /\ fetchedOk = [p \in SchedPageIds |-> {}]
    /\ fetching = None
    /\ lastTick = NoTick
    /\ sent = << >>
    /\ lastDownload = NoDownload
    /\ overlapped = {}
    /\ page_seq = 2
    /\ reply = NoReply
    /\ sweep = NoSweep
    /\ fn_call = NoCall

SchedNext ==
    \/ schedule_page_checks
    \/ \E page_id \in DOMAIN pages : check_page_now(page_id)
    \/ \E page_id \in DOMAIN pages : check_page_start(page_id)
    \/ \E page_id \in DOMAIN pages : check_page_fetched(page_id)

SchedSpec == SchedInit /\ [][SchedNext]_vars

(* ---------------------------- the API ---------------------------------- *)
\* The routes that write monitored_pages, on a store that starts empty, with
\* the worker running the jobs they enqueue.  Pages are of two sites: the
\* one of PageUrlA serves a body without file links, the one of PageUrlD a
\* body with one file link.
ApiPageIds == 1..MaxPages
ApiUrls == {PageUrlA, PageUrlD}

\* the bodies of POST /pages and PUT /pages/{page_id}; an unset field of an
\* update is None
PageCreates ==
    {[name |-> "My Page", url |-> u, css_selector |-> None, frequency |-> "hourly",
      is_active |-> TRUE] : u \in ApiUrls}
PageUpdates ==
    {[url |-> Some(u), is_active |-> None] : u \in ApiUrls}
    \cup {[url |-> None, is_active |-> Some(FALSE)]}

\* bug: no check of the rows that are there, no unique index
UrlTaken_never(rows, page_id, url) == FALSE

\* the unique index of monitored_pages.url: a row other than page_id has url
UrlTaken(rows, page_id, url) ==
    \E p \in DOMAIN rows : p # page_id /\ rows[p].url = url

\* bug: the relationships do not cascade
Purged_noCascade(rows, page_id) == rows

\* the rows of a table without those of page_id; ids are not reused, the
\* slot of a deleted row stays and belongs to no page
Purged(rows, page_id) ==
    [i \in 1..Len(rows) |->
        IF rows[i].page_id = page_id THEN [rows[i] EXCEPT !.page_id = 0] ELSE rows[i]]

\* notifications.change_id references a page_changes row of page_id: every
\* call of send_notifications stored such rows
Notified(page_id) ==
    \E i \in 1..Len(sent) : changes[sent[i]].page_id = page_id

\* db.delete(db_page); db.commit(): the cascades of MonitoredPage.changes and
\* MonitoredPage.files delete the rows of the page with it, and the commit
\* fails on the foreign key of a notification
DeleteCommits(page_id) ==
    /\ ~Notified(page_id)
    /\ pages' = [p \in DOMAIN pages \ {page_id} |-> pages[p]]
    /\ changes' = Purged(changes, page_id)
    /\ files' = Purged(files, page_id)

ApiUnchanged_sweep ==
    UNCHANGED <<fn_call, now, inflight, lastCheck, lastFetch, fetchedOk, fetching, lastTick,
                sent, lastDownload, overlapped>>

ApiUnchanged == ApiUnchanged_sweep /\ UNCHANGED sweep

Reply(route, status_code, detail, page_id) ==
    [NoReply EXCEPT !.route = route, !.status_code = status_code,
                    !.detail = detail, !.page_id = page_id]

\* POST /pages
create_page(page) ==
    /\ IF UrlTaken(pages, 0, page.url)
       THEN /\ reply' = Reply("create_page", 400, "Page with this URL already exists", 0)
            /\ UNCHANGED <<pages, page_seq>>
       ELSE /\ page_seq < MaxPages
            /\ page_seq' = page_seq + 1
            /\ pages' = pages @@ (page_seq' :>
                           NewPage(page.name, page.url, page.css_selector,
                                   page.frequency, page.is_active))
            /\ reply' = Reply("create_page", 200, "", page_seq')
    /\ UNCHANGED <<changes, files, queue>>
    /\ ApiUnchanged

\* PUT /pages/{page_id}: the fields that are set are assigned and committed
update_page(page_id, page) ==
    /\ IF page_id \notin DOMAIN pages
       THEN /\ reply' = Reply("update_page", 404, "Page not found", 0)
            /\ UNCHANGED pages
       ELSE LET db_page == [pages[page_id] EXCEPT
                              !.url = IF IsNone(page.url) THEN @ ELSE Val(page.url),
                              !.is_active = IF IsNone(page.is_active) THEN @
                                            ELSE Val(page.is_active)]
            IN IF UrlTaken(pages, page_id, db_page.url)
               THEN /\ reply' = Reply("update_page", 500, "IntegrityError", page_id)
                    /\ UNCHANGED pages
               ELSE /\ pages' = [pages EXCEPT ![page_id] = db_page]
                    /\ reply' = Reply("update_page", 200, "", page_id)
    /\ UNCHANGED <<changes, files, queue, page_seq>>
    /\ ApiUnchanged

\* DELETE /pages/{page_id}
delete_page(page_id) ==
    /\ IF page_id \notin DOMAIN pages
       THEN /\ reply' = Reply("delete_page", 404, "Page not found", 0)
            /\ UNCHANGED <<pages, changes, files>>
       ELSE \/ /\ DeleteCommits(page_id)
               /\ reply' = Reply("delete_page", 200, "", page_id)
            \/ /\ Notified(page_id)
               /\ reply' = Reply("delete_page", 500, "IntegrityError", page_id)
               /\ UNCHANGED <<pages, changes, files>>
    /\ UNCHANGED <<queue, page_seq>>
    /\ ApiUnchanged

\* POST /smart-extract: when the analysis succeeds, an inactive page is
\* stored for the URL, without a look at the rows that are there
smart_extract(url, success) ==
    /\ IF ~success
       THEN /\ reply' = Reply("smart_extract", 500, "Failed to analyze webpage", 0)
            /\ UNCHANGED <<pages, page_seq>>
       ELSE IF UrlTaken(pages, 0, url)
       THEN /\ reply' = Reply("smart_extract", 500, "IntegrityError", 0)
            /\ UNCHANGED <<pages, page_seq>>
       ELSE /\ page_seq < MaxPages
            /\ page_seq' = page_seq + 1
            /\ pages' = pages @@ (page_seq' :>
                           NewPage("Smart Extract", url, None, "daily", FALSE))
            /\ reply' = Reply("smart_extract", 200, "", page_seq')
    /\ UNCHANGED <<changes, files, queue>>
    /\ ApiUnchanged

\* POST /smart-extract/confirm: activate the page and enqueue a check, or
\* delete the page
confirm_smart_extract(page_id, confirmed) ==
    /\ IF page_id \notin DOMAIN pages
       THEN /\ reply' = Reply("confirm_smart_extract", 404, "Extraction plan not found", 0)
            /\ UNCHANGED <<pages, changes, files, queue>>
       ELSE IF confirmed
       THEN /\ queue[page_id] < MaxQueue
            /\ pages' = [pages EXCEPT ![page_id].is_active = TRUE]
            /\ queue' = [queue EXCEPT ![page_id] = @ + 1]
            /\ reply' = Reply("confirm_smart_extract", 200, "", page_id)
            /\ UNCHANGED <<changes, files>>
       ELSE /\ \/ /\ DeleteCommits(page_id)
                  /\ reply' = Reply("confirm_smart_extract", 400,
                                    "Extraction plan rejected", page_id)
               \/ /\ Notified(page_id)
                  /\ reply' = Reply("confirm_smart_extract", 500, "IntegrityError",
                                    page_id)
                  /\ UNCHANGED <<pages, changes, files>>
            /\ UNCHANGED queue
    /\ UNCHANGED page_seq
    /\ ApiUnchanged

\* a queued check_page job of a page that is gone: "Page with ID ... not found"
check_page_missing(page_id) ==
    /\ page_id \notin DOMAIN pages
    /\ queue[page_id] > 0
    /\ queue' = [queue EXCEPT ![page_id] = @ - 1]
    /\ lastCheck' = [NoCheck EXCEPT !.page = page_id, !.outcome = "Error"]
    /\ UNCHANGED <<fn_call, now, pages, changes, files, inflight, lastFetch, fetchedOk, fetching,
                   lastTick, sent, lastDownload, overlapped, page_seq, reply, sweep>>

\* check_all_pages loads the active pages; one call is followed
check_all_pages ==
    /\ sweep.state = "idle"
    /\ \E order \in Orderings(ActivePages(pages)) :
          sweep' = [state |-> "running", pages |-> order, todo |-> order,
                    results |-> << >>]
    /\ UNCHANGED <<pages, changes, files, queue, page_seq, reply>>
    /\ ApiUnchanged_sweep

\* the page gone: check_page_for_changes raises on the expired object and
\* so does the handler
SweepPageGone(page_id) ==
    /\ page_id \notin DOMAIN pages
    /\ sweep' = SweepRaised(sweep)
    /\ UNCHANGED <<pages, changes, files, inflight, lastCheck, lastFetch, fetchedOk,
                   overlapped>>

\* the commit of check_page_for_changes raises: the handler appends an entry
SweepCommitFails(page_id) ==
    /\ page_id \in DOMAIN pages
    /\ CommitFails(page_id)
    /\ sweep' = Swept(sweep, ErrorEntry(page_id))

\* check_page_for_changes returns: the entry follows at once, or after the
\* download_files call that has started
SweepCommits(page_id) ==
    /\ page_id \in DOMAIN pages
    /\ Commits(page_id, "check_all_pages")
    /\ sweep' = IF inflight' # inflight THEN sweep
                ELSE Swept(sweep, ResultEntry(page_id, lastCheck'.changed, 0))

\* one turn of the loop of check_all_pages, for the next page of the list it
\* loaded; whether the page is active now is not looked at
check_all_pages_page ==
    /\ sweep.state = "running"
    /\ sweep.todo # << >>
    /\ ~\E job \in inflight : job.caller = "check_all_pages"
    /\ Len(changes) < MaxChanges
    /\ Cardinality({job \in inflight : job.page_id = Head(sweep.todo)}) < MaxInflight
    /\ UNCHANGED <<fn_call, now, queue, fetching, lastTick, sent, lastDownload, page_seq, reply>>
    /\ \/ SweepPageGone(Head(sweep.todo))
       \/ SweepCommitFails(Head(sweep.todo))
       \/ SweepCommits(Head(sweep.todo))

\* the loop is over: check_all_pages returns its list
check_all_pages_return ==
    /\ sweep.state = "running"
    /\ sweep.todo = << >>
    /\ sweep' = [sweep EXCEPT !.state = "returned"]
    /\ UNCHANGED <<pages, changes, files, queue, page_seq, reply>>
    /\ ApiUnchanged_sweep

ApiInit ==
    /\ now = 0
    /\ pages = << >>
    /\ changes = << >>
    /\ files = << >>
    /\ queue = [p \in ApiPageIds |-> 0]
    /\ inflight = {}
    /\ lastCheck = NoCheck
    /\ lastFetch = [p \in ApiPageIds |-> None]
    /\ fetchedOk = [p \in ApiPageIds |-> {}]
    /\ fetching = None
    /\ lastTick = NoTick
    /\ sent = << >>
    /\ lastDownload = NoDownload
    /\ overlapped = {}
    /\ page_seq = 0
    /\ reply = NoReply
    /\ sweep = NoSweep
    /\ fn_call = NoCall

ApiNext ==
    \/ \E page \in PageCreates : create_page(page)
    \/ \E page_id \in ApiPageIds, page \in PageUpdates : update_page(page_id, page)
    \/ \E page_id \in ApiPageIds : delete_page(page_id)
    \/ \E url \in ApiUrls, success \in BOOLEAN : smart_extract(url, success)
    \/ \E page_id \in ApiPageIds, confirmed \in BOOLEAN :
          confirm_smart_extract(page_id, confirmed)
    \/ \E page_id \in ApiPageIds : check_page_now(page_id)
    \/ \E page_id \in DOMAIN pages :
          Len(changes) < MaxApiChanges /\ check_page(page_id)
    \/ \E page_id \in ApiPageIds : check_page_missing(page_id)
    \/ \E job \in inflight : check_page_resume(job)

ApiSpec == ApiInit /\ [][ApiNext]_vars

(* ---------------------------- check_all_pages -------------------------- *)
\* One call of check_all_pages over two pages, of PageUrlA and of PageUrlD,
\* while the API deletes pages and the worker runs check_page jobs.
SweepInit ==
    /\ now = 0
    /\ \E act1, act2 \in BOOLEAN :
          pages = (1 :> NewPage("My Page", PageUrlA, None, "hourly", act1))
                  @@ (2 :> NewPage("", PageUrlD, None, "hourly", act2))
    /\ changes = << >>
    /\ files = << >>
    /\ queue = [p \in SchedPageIds |-> 0]
    /\ inflight = {}
    /\ lastCheck = NoCheck
    /\ lastFetch = [p \in SchedPageIds |-> None]
    /\ fetchedOk = [p \in SchedPageIds |-> {}]
    /\ fetching = None
    /\ lastTick = NoTick
    /\ sent = << >>
    /\ lastDownload = NoDownload
    /\ overlapped = {}
    /\ page_seq = 2
    /\ reply = NoReply
    /\ sweep = NoSweep
    /\ fn_call = NoCall

SweepNext ==
    \/ check_all_pages
    \/ check_all_pages_page
    \/ check_all_pages_return
    \/ \E job \in inflight : check_page_resume(job)
    \/ \E page_id \in SchedPageIds : delete_page(page_id)
    \/ \E page_id \in DOMAIN pages : check_page_now(page_id)
    \/ \E page_id \in DOMAIN pages : check_page(page_id)
    \/ \E page_id \in SchedPageIds : check_page_missing(page_id)

SweepSpec == SweepInit /\ [][SweepNext]_vars

(* ---------------------------- the validator cache ---------------------- *)
\* One page of the site of PageUrlC, which serves one body without file
\* links under any of the validator headers, checked again and again.
CacheInit ==
    /\ now = 0
    /\ pages \in [PageIds -> {NewPage("My Page", PageUrlC, None, "hourly", act) :
                                  act \in BOOLEAN}]
    /\ changes = << >>
    /\ files = << >>
    /\ queue = [p \in PageIds |-> 0]
    /\ inflight = {}
    /\ lastCheck = NoCheck
    /\ lastFetch = [p \in PageIds |-> None]
    /\ fetchedOk = [p \in PageIds |-> {}]
    /\ fetching = None
    /\ lastTick = NoTick
    /\ sent = << >>
    /\ lastDownload = NoDownload
    /\ overlapped = {}
    /\ page_seq = 1
    /\ reply = NoReply
    /\ sweep = NoSweep
    /\ fn_call = NoCall

CacheNext ==
    \/ Tick
    \/ \E page_id \in DOMAIN pages : check_page_now(page_id)
    \/ \E page_id \in DOMAIN pages : check_page(page_id)

CacheSpec == CacheInit /\ [][CacheNext]_vars

(* ---------------------------- the pure functions ----------------------- *)
\* One call of is_file_url, of compute_content_hash or of extract_file_links
\* on any of the arguments below.
CallExtensions == FILE_EXTENSIONS \cup {"", "PDF", "CSV", "Rtf", "html", "exe", "pdfx"}
CallQueries == {"", "v=2", "download=1", "Download=1", "file=7", "attachment",
                "ATTACHMENT=x", "profile=1"}
CallUrls == {Url("site", "report", e, q) : e \in CallExtensions, q \in CallQueries}
CallBodies == Bodies \cup {EmptyBody}
CallSelectors == {None, Some(""), Some(Sel), Some("x"), Some("[")}
\* documents of one element, a hyperlink or an embed-like element, with or
\* without inner text and title attribute
CallElements ==
    {[Elem(tag, "n", Some(ref), text) EXCEPT !.title = title] :
        tag \in {"a", "iframe", "object"}, ref \in {U1, Rel(U2), UAbout},
        text \in {"", "Report"}, title \in {None, Some("Data sheet")}}
CallDocuments == Bodies \cup {<<e>> : e \in CallElements}

FnInit ==
    /\ now = 0
    /\ pages = << >>
    /\ changes = << >>
    /\ files = << >>
    /\ queue = [p \in ApiPageIds |-> 0]
    /\ inflight = {}
    /\ lastCheck = NoCheck
    /\ lastFetch = [p \in ApiPageIds |-> None]
    /\ fetchedOk = [p \in ApiPageIds |-> {}]
    /\ fetching = None
    /\ lastTick = NoTick
    /\ sent = << >>
    /\ lastDownload = NoDownload
    /\ overlapped = {}
    /\ page_seq = 0
    /\ reply = NoReply
    /\ sweep = NoSweep
    /\ \/ \E url \in CallUrls : fn_call = [NoCall EXCEPT !.fn = "is_file_url", !.url = url]
       \/ \E content \in CallBodies, css_selector \in CallSelectors :
             fn_call = [NoCall EXCEPT !.fn = "compute_content_hash",
                                   !.content = content,
                                   !.css_selector = css_selector]
       \/ \E html_content \in CallDocuments :
             fn_call = [NoCall EXCEPT !.fn = "extract_file_links",
                                   !.content = html_content]

FnUnchanged ==
    UNCHANGED <<now, pages, changes, files, queue, inflight, lastCheck, lastFetch,
                fetchedOk, fetching, lastTick, sent, lastDownload, overlapped, page_seq,
                reply, sweep>>

is_file_url_call ==
    /\ fn_call.fn = "is_file_url"
    /\ IsNone(fn_call.result)
    /\ fn_call' = [fn_call EXCEPT !.result = Some(is_file_url(fn_call.url))]
    /\ FnUnchanged

compute_content_hash_call ==
    /\ fn_call.fn = "compute_content_hash"
    /\ IsNone(fn_call.result)
    /\ fn_call' = [fn_call EXCEPT !.result =
                   Some(compute_content_hash(fn_call.content, fn_call.css_selector))]
    /\ FnUnchanged

\* the base URL is that of the page, fn_call.url
extract_file_links_call ==
    /\ fn_call.fn = "extract_file_links"
    /\ IsNone(fn_call.result)
    /\ fn_call' = [fn_call EXCEPT !.result =
                      Some(extract_file_links(fn_call.content, fn_call.url))]
    /\ FnUnchanged

FnNext ==
    \/ is_file_url_call
    \/ compute_content_hash_call
    \/ extract_file_links_call

FnSpec == FnInit /\ [][FnNext]_vars

(* ---------------------------- the scheduler over time ----------------- *)
\* The cron job and the worker over some minutes, no enqueue_job failing.
\* Page 1 is active and checked every five minutes; it was never checked or
\* was checked at time 0; page 2 is inactive.  The clock moves from one run of cron to the next.
\* '* * * * *': every minute
CronPeriod == Minutes(1)
MaxLiveTime == Minutes(MaxLiveMinutes)
LiveTimes == {k * CronPeriod : k \in 0..MaxLiveMinutes}

LiveInit ==
    /\ now = 0
    /\ \E last \in {None, Some(0)} :
          pages = (1 :> [NewPage("My Page", PageUrlA, None, "5_minutes", TRUE)
                           EXCEPT !.last_checked_at = last])
                  @@ (2 :> NewPage("", PageUrlB, None, "hourly", FALSE))
    /\ changes = << >>
    /\ files = << >>
    /\ queue = [p \in SchedPageIds |-> 0]
    /\ inflight = {}
    /\ lastCheck = NoCheck
    /\ lastFetch = [p \in SchedPageIds |-> None]
    /\ fetchedOk = [p \in SchedPageIds |-> {}]
    /\ fetching = None
    /\ lastTick = NoTick
    /\ sent = << >>
    /\ lastDownload = NoDownload
    /\ overlapped = {}
    /\ page_seq = 2
    /\ reply = NoReply
    /\ sweep = NoSweep
    /\ fn_call = NoCall

\* time passes
Elapse ==
    /\ now < MaxLiveTime
    /\ now' = now + CronPeriod
    /\ UNCHANGED <<pages, changes, files, queue, inflight, lastCheck, lastFetch, fetchedOk,
                   fetching, lastTick, sent, lastDownload, overlapped, page_seq, reply, sweep,
                   fn_call>>

\* a run of schedule_page_checks in which no enqueue_job raises
schedule_page_checks_ok ==
    /\ \A p \in ActivePages(pages) : IsDue(pages[p], now) => queue[p] < MaxLiveQueue
    /\ schedule_page_checks
    /\ lastTick'.outcome = "scheduled"

LiveNext ==
    \/ Elapse
    \/ schedule_page_checks_ok
    \/ \E page_id \in DOMAIN pages : check_page_start(page_id)
    \/ \E page_id \in DOMAIN pages : check_page_fetched(page_id)

\* the clock goes on, cron starts the job every minute, and the worker runs
\* the jobs that are queued and ends the ones it runs
LiveFairness ==
    /\ WF_vars(Elapse)
    /\ WF_vars(schedule_page_checks_ok)
    /\ \A page_id \in SchedPageIds :
          /\ WF_vars(check_page_start(page_id))
          /\ WF_vars(check_page_fetched(page_id))

LiveSpec == LiveInit /\ [][LiveNext]_vars /\ LiveFairness

TypeOK ==
    /\ now \in Nat
    /\ Len(changes) <= MaxChanges
    /\ \A p \in DOMAIN pages :
          Cardinality({job \in inflight : job.page_id = p}) <= MaxInflight

(* ---------------------------- properties ------------------------------- *)
\* this step is the first step of a check_page job for page_id
Checked(page_id) == queue'[page_id] = queue[page_id] - 1

\* check_page_for_changes returned in the latest check_page job
Returned(check) == check.outcome \in {"NoContent", "Unchanged", "Changed"}

TaskUrls(job) == {job.tasks[i].url : i \in 1..Len(job.tasks)}

\* the file URLs for which this step issues a GET
Requested(page_id) ==
    UNION {TaskUrls(job) : job \in {j \in inflight' \ inflight : j.page_id = page_id}}

\* C1: no two DownloadedFile rows of a page share the same non-null
\* contentHash (two URLs of one batch serving identical bytes give one row).
C1_NoDuplicateContentHash ==
    \A p \in PageIds : \A i, j \in FilesOf(files, p) :
        (i # j /\ ~IsNone(files[i].content_hash)) => files[i].content_hash # files[j].content_hash

\* C2: a check whose page GET was answered with a non-2xx status (304
\* included) ends in NoContent: changed = false, no PageChange row, and
\* lastContentHash unchanged.
C2_Non2xxIsNoContent ==
    [][\A p \in PageIds :
         (Checked(p) /\ Returned(lastCheck') /\ lastCheck'.status # 0
            /\ ~(lastCheck'.status >= 200 /\ lastCheck'.status < 300))
         => /\ lastCheck'.outcome = "NoContent"
            /\ lastCheck'.changed = FALSE
            /\ changes' = changes
            /\ pages'[p].last_content_hash = pages[p].last_content_hash]_vars

\* C3: when a check fetches the body the previous check of the page fetched
\* (same selector), it returns (false, None, []) and creates no PageChange
\* row, no DownloadedFile row and no download.
C3_SameBodyUnchanged ==
    [][\A p \in PageIds :
         (Checked(p) /\ Returned(lastCheck') /\ ~IsNone(lastFetch[p])
            /\ lastFetch'[p] = lastFetch[p])
         => /\ lastCheck'.outcome = "Unchanged"
            /\ lastCheck'.changed = FALSE
            /\ lastCheck'.change = None
            /\ lastCheck'.file_links = << >>
            /\ changes' = changes
            /\ files' = files
            /\ inflight' = inflight]_vars

C3_Witness ==
    /\ lastCheck.outcome = "Unchanged"
    /\ IsNone(pages[1].css_selector)
    /\ lastFetch[1] = Some([body |-> B3, css_selector |-> None])
    /\ Len(changes) = 1

\* C4: a check that fetches a body whose hash differs from lastContentHash
\* (or finds it unset) sets lastContentHash to the new hash and lastChangedAt
\* to now, appends exactly one "content_changed" PageChange of the page and
\* returns (true, that change, the file links of the fetched body).
C4_ChangedEffects ==
    [][\A p \in PageIds :
         (Checked(p) /\ Returned(lastCheck') /\ ~IsNone(lastFetch'[p])
            /\ (\/ IsNone(pages[p].last_content_hash)
                \/ Val(pages[p].last_content_hash) #
                     compute_content_hash(Val(lastFetch'[p]).body, pages[p].css_selector)))
         => /\ pages'[p].last_content_hash =
                 Some(compute_content_hash(Val(lastFetch'[p]).body, pages[p].css_selector))
            /\ pages'[p].last_changed_at = Some(now)
            /\ Len(changes') = Len(changes) + 1
            /\ SubSeq(changes', 1, Len(changes)) = changes
            /\ changes'[Len(changes')].page_id = p
            /\ changes'[Len(changes')].change_type = "content_changed"
            /\ lastCheck'.changed = TRUE
            /\ lastCheck'.change = Some(Len(changes'))
            /\ lastCheck'.file_links =
                 extract_file_links(Val(lastFetch'[p]).body, pages[p].url)]_vars

C4_Witness ==
    /\ lastCheck.outcome = "Changed"
    /\ lastCheck.change = Some(2)
    /\ Len(lastCheck.file_links) = 2
    /\ changes[1].details.new_hash # changes[2].details.new_hash

\* C5: the PageChange created by a check records as previous hash the value
\* lastContentHash had before the check and as new hash the value it has
\* after it; when the page had a prior hash the two differ.
C5_DetailsPreviousHash ==
    [][\A p \in PageIds :
         (Checked(p) /\ Len(changes') = Len(changes) + 1)
         => LET details == changes'[Len(changes')].details IN
            /\ details.previous_hash = pages[p].last_content_hash
            /\ Some(details.new_hash) = pages'[p].last_content_hash
            /\ (~IsNone(pages[p].last_content_hash)
                  => details.previous_hash # Some(details.new_hash))]_vars

\* C6: a check whose page GET fails (no response, or a 4xx/5xx status)
\* changes no page field other than lastCheckedAt, creates no PageChange and
\* returns (false, None, []).
C6_NoContentFrame ==
    [][\A p \in PageIds :
         (Checked(p) /\ Returned(lastCheck')
            /\ (lastCheck'.status = 0 \/ lastCheck'.status >= 400))
         => /\ pages'[p] = [pages[p] EXCEPT !.last_checked_at = pages'[p].last_checked_at]
            /\ changes' = changes
            /\ lastCheck'.changed = FALSE
            /\ lastCheck'.change = None
            /\ lastCheck'.file_links = << >>]_vars

C6_Witness ==
    /\ lastCheck.outcome = "NoContent"
    /\ lastCheck.status = 404
    /\ ~IsNone(pages[1].last_content_hash)
    /\ ~IsNone(pages[1].last_etag)
    /\ pages[1].last_changed_at = Some(0)
    /\ pages[1].last_checked_at = Some(1)

\* C7: every check_page_for_changes that returns (NoContent, Unchanged or
\* Changed) has committed lastCheckedAt = now, which is not earlier than
\* the previous value.
C7_LastCheckedAtCommitted ==
    [][\A p \in PageIds :
         (Checked(p) /\ Returned(lastCheck'))
         => /\ pages'[p].last_checked_at = Some(now)
            /\ (~IsNone(pages[p].last_checked_at)
                  => Val(pages[p].last_checked_at) <= Val(pages'[p].last_checked_at))]_vars

C7_Witness ==
    /\ lastCheck.outcome = "Unchanged"
    /\ pages[1].last_changed_at = Some(0)
    /\ pages[1].last_checked_at = Some(1)

\* C8: in the committed store a step changes a page's lastContentHash if and
\* only if it appends a PageChange row of that page; a check that fails at
\* its commit leaves the page and the PageChange rows as they were.
C8_HashAndChangeAtomic ==
    [][\A p \in PageIds :
         /\ (pages'[p].last_content_hash # pages[p].last_content_hash)
              <=> (/\ Len(changes') = Len(changes) + 1
                   /\ changes'[Len(changes')].page_id = p
                   /\ Some(changes'[Len(changes')].details.new_hash)
                        = pages'[p].last_content_hash)
         /\ Len(changes') >= Len(changes)
         /\ SubSeq(changes', 1, Len(changes)) = changes
         /\ (Checked(p) /\ lastCheck'.outcome = "Error")
              => (pages' = pages /\ changes' = changes)]_vars

C8_Witness ==
    /\ lastCheck.outcome = "Error"
    /\ ~IsNone(pages[1].last_content_hash)
    /\ Len(changes) = 1

\* C9: a link whose URL is an originalURL of a DownloadedFile of the page
\* when download_files starts gets no download task: no GET is issued for it
\* and the rows a job adds are rows of its own tasks.
C9_SeenUrlNotFetched ==
    [][\A p \in PageIds :
         /\ Requested(p) \cap existing_urls(files, p) = {}
         /\ \A k \in (Len(files) + 1)..Len(files') :
               \E job \in inflight \ inflight' :
                   /\ files'[k].page_id = job.page_id
                   /\ files'[k].original_url \in TaskUrls(job)]_vars

C9_Witness ==
    /\ lastCheck.outcome = "Changed"
    /\ \E i \in 1..Len(lastCheck.file_links) :
          lastCheck.file_links[i].url \in existing_urls(files, 1)
    /\ \E i \in 1..Len(lastCheck.file_links) :
          lastCheck.file_links[i].url \notin existing_urls(files, 1)
    /\ \E job \in inflight : Len(job.tasks) = 1

\* C10: once a GET of a file URL has returned a successful body (in a
\* download_files call that returned), no later check of the page issues
\* another GET for that URL.
C10_FetchedOnce ==
    [][\A p \in PageIds : Requested(p) \cap fetchedOk[p] = {}]_vars

\* the check_page jobs of page p that are queued or running
InFlight(p) ==
    queue[p] + Cardinality({job \in inflight : job.page_id = p})
    + (IF fetching = Some(p) THEN 1 ELSE 0)

\* C11: at no time are two checks of the same page in flight: neither
\* schedule_page_checks nor check-now enqueues a check_page job for a page
\* that already has a queued or running one.
C11_OneCheckInFlight == \A p \in DOMAIN pages : InFlight(p) <= 1

\* C12: when the checks of a page do not overlap, no two DownloadedFile
\* rows of the page share their originalURL.
C12_UniqueOriginalUrl ==
    \A p \in DOMAIN pages :
        p \notin overlapped =>
            \A i, j \in FilesOf(files, p) :
                i # j => files[i].original_url # files[j].original_url

\* two checks of a page, one after the other, each stored a file
C12_Witness ==
    \E p \in DOMAIN pages :
        /\ p \notin overlapped
        /\ \E i, j \in FilesOf(files, p) : files[i].change_id # files[j].change_id

\* this step is a run of schedule_page_checks
Ticked == lastTick' # lastTick

\* the interval of a frequency value as the specification gives it, in minutes
StatedMinutes(frequency) ==
    CASE frequency = "5_minutes" -> 5
      [] frequency = "15_minutes" -> 15
      [] frequency = "30_minutes" -> 30
      [] frequency = "hourly" -> 60
      [] frequency = "daily" -> 24 * 60
      [] frequency = "weekly" -> 7 * 24 * 60
      [] OTHER -> 60

\* page is enqueued by this step
EnqueuedNow(p) == queue'[p] = queue[p] + 1

\* C13: a run of schedule_page_checks that returns its counts enqueues an
\* active page exactly when lastCheckedAt is unset or now >= lastCheckedAt +
\* interval(frequency), the intervals being 5, 15, 30 minutes, 1 hour, 1 day,
\* 1 week and 1 hour for an unrecognized value; an hourly page last checked
\* 61 minutes ago is enqueued, one last checked 59 minutes ago is not.
C13_DueExactly ==
    [][(Ticked /\ lastTick'.outcome = "scheduled") =>
        \A p \in ActivePages(pages) :
            LET last == pages[p].last_checked_at
                due == IF IsNone(last) THEN TRUE
                       ELSE now - Val(last) >=
                                StatedMinutes(pages[p].frequency) * 60 * TicksPerSecond
            IN /\ EnqueuedNow(p) <=> due
               /\ ~due => queue'[p] = queue[p]
               /\ (pages[p].frequency = "hourly" /\ last = Some(now - 61 * 60 * TicksPerSecond))
                    => EnqueuedNow(p)
               /\ (pages[p].frequency = "hourly" /\ last = Some(now - 59 * 60 * TicksPerSecond))
                    => ~EnqueuedNow(p)]_vars

\* a run has enqueued an hourly page 61 minutes after its last check
C13_Witness ==
    /\ lastTick.outcome = "scheduled"
    /\ \E p \in lastTick.enqueued :
        /\ pages[p].last_checked_at = Some(0)
        /\ pages[p].frequency = "hourly"
        /\ now = Minutes(61)

\* C14: when the enqueue of one due page fails during a run of
\* schedule_page_checks, every other due page of the run is still enqueued.
C14_EnqueueFailureContained ==
    [][(Ticked /\ ~IsNone(lastTick'.failed)) =>
        \A p \in lastTick'.due \ {Val(lastTick'.failed)} : EnqueuedNow(p)]_vars

\* C15: for every PageChange whose check has ended, send_notifications was
\* called exactly once with that change, whether or not files were
\* downloaded.
C15_NotifiedOnce ==
    \A c \in 1..Len(changes) :
        (\A job \in inflight : job.change_id # Some(c)) =>
            Cardinality({i \in 1..Len(sent) : sent[i] = c}) = 1

\* the check of page p waits for its page fetch or for its file downloads
Waiting(p) == fetching = Some(p) \/ \E job \in inflight : job.page_id = p

\* C16: while the check of one page waits for its page fetch or its file
\* downloads, a cron run that is due can run and a queued check of another
\* page can start.
C16_SlowCheckDoesNotBlock ==
    \A p \in DOMAIN pages :
        Waiting(p) =>
            /\ IsNone(lastTick.at) => ENABLED schedule_page_checks
            /\ \A q \in DOMAIN pages \ {p} : Startable(q) => ENABLED check_page_start(q)

\* C17: any two downloads stored for the same page have different storage
\* paths, also when their links have the same basename and are downloaded
\* within the same second.
C17_DistinctStoragePaths ==
    \A p \in DOMAIN pages : \A i, j \in FilesOf(files, p) :
        i # j => files[i].stored_filename # files[j].stored_filename

\* C18: a run of schedule_page_checks never enqueues an inactive page, and
\* a check_page job that runs for an inactive page fetches nothing, changes
\* no field of the page and creates no PageChange or DownloadedFile row.
C18_InactiveUntouched ==
    [][\A p \in DOMAIN pages :
        ~pages[p].is_active =>
            /\ Ticked => queue'[p] = queue[p]
            /\ Checked(p) =>
                /\ fetching' = None /\ inflight' = inflight
                /\ lastCheck'.page = p /\ lastCheck'.outcome = "Skipped"
                /\ lastCheck'.status = 0
                /\ pages' = pages /\ changes' = changes /\ files' = files]_vars

\* a run of schedule_page_checks has passed over an inactive page, and a
\* check_page job enqueued by check-now has run for it
C18_Witness ==
    /\ ~IsNone(lastTick.at)
    /\ lastCheck.outcome = "Skipped"
    /\ ~pages[lastCheck.page].is_active
    /\ lastCheck.page \notin lastTick.enqueued
    /\ IsDue(pages[lastCheck.page], Val(lastTick.at))

\* C19: a run of schedule_page_checks that returns its counts enqueues one
\* check_page job for each due active page and none for any other page, and
\* it ends with these jobs queued: no check runs within it.
C19_OneJobPerDuePage ==
    [][(Ticked /\ lastTick'.outcome = "scheduled") =>
        /\ \A p \in DOMAIN pages :
              queue'[p] = queue[p] + (IF pages[p].is_active /\ IsDue(pages[p], now)
                                      THEN 1 ELSE 0)
        /\ fetching' = fetching /\ inflight' = inflight /\ lastCheck' = lastCheck
        /\ pages' = pages /\ changes' = changes /\ files' = files]_vars

\* a run has ended with the job of a due page queued and no job for an
\* active page that is not due, before any check ran
C19_Witness ==
    /\ lastTick.outcome = "scheduled"
    /\ lastCheck = NoCheck /\ IsNone(fetching)
    /\ \E p, q \in ActivePages(pages) :
        /\ p \in lastTick.enqueued /\ queue[p] = 1
        /\ q \notin lastTick.enqueued /\ queue[q] = 0

\* this step is a check of page p that fetched `body` with status 200
Fetched(p, body) ==
    /\ Checked(p) /\ Returned(lastCheck') /\ lastCheck'.status = 200
    /\ lastFetch'[p] = Some([body |-> body, css_selector |-> pages[p].css_selector])

\* C20: for a page without selector.  A check that finds lastContentHash
\* unset and fetches B1 (no file links) returns changed with one new
\* PageChange, no file, and lastContentHash = hash(B1).  A check that
\* fetches B1 right after one that fetched B1 returns unchanged.  A check
\* that finds hash(B1) and fetches B2 (linking report.pdf) returns changed
\* with one new PageChange and, no file being stored yet, asks for
\* report.pdf alone; when its download succeeds and is committed there is
\* exactly one new DownloadedFile, for report.pdf and that change, whose
\* contentHash is the hash of the bytes received.
C20_EndToEnd ==
    [][\A p \in DOMAIN pages :
        IsNone(pages[p].css_selector) =>
            /\ (IsNone(pages[p].last_content_hash) /\ Fetched(p, B1)) =>
                  /\ lastCheck'.changed /\ lastCheck'.change = Some(Len(changes'))
                  /\ Len(changes') = Len(changes) + 1
                  /\ changes'[Len(changes')].page_id = p
                  /\ lastCheck'.file_links = << >>
                  /\ files' = files /\ inflight' = inflight
                  /\ pages'[p].last_content_hash = Some(sha256(B1))
            /\ (lastFetch[p] = Some([body |-> B1, css_selector |-> None]) /\ Fetched(p, B1)) =>
                  /\ ~lastCheck'.changed /\ IsNone(lastCheck'.change)
                  /\ changes' = changes /\ files' = files /\ inflight' = inflight
                  /\ pages'[p].last_content_hash = Some(sha256(B1))
            /\ (pages[p].last_content_hash = Some(sha256(B1)) /\ Fetched(p, B2)) =>
                  /\ lastCheck'.changed /\ lastCheck'.change = Some(Len(changes'))
                  /\ Len(changes') = Len(changes) + 1
                  /\ changes'[Len(changes')].page_id = p
                  /\ FilesOf(files, p) = {} =>
                        \E job \in inflight' :
                            /\ inflight' \ inflight = {job}
                            /\ job.page_id = p /\ job.change_id = lastCheck'.change
                            /\ Len(job.tasks) = 1 /\ job.tasks[1].url = U1
            /\ \A job \in inflight \ inflight' :
                  (/\ job.page_id = p /\ FilesOf(files, p) = {}
                   /\ Len(job.tasks) = 1 /\ job.tasks[1].url = U1
                   /\ lastDownload'.change = job.change_id
                   /\ ~IsNone(lastDownload'.bodies[1])) =>
                      /\ Len(files') = Len(files) + 1
                      /\ files'[Len(files')].page_id = p
                      /\ files'[Len(files')].change_id = job.change_id
                      /\ files'[Len(files')].original_url = U1
                      /\ files'[Len(files')].content_hash =
                            Some(sha256(Val(lastDownload'.bodies[1])))]_vars

\* the three checks have run: two PageChange rows, for B1 and for B2, and
\* one DownloadedFile, for report.pdf and the second change
C20_Witness ==
    /\ IsNone(pages[1].css_selector)
    /\ Len(changes) = 2
    /\ changes[1].details.new_hash = sha256(B1)
    /\ changes[2].details.new_hash = sha256(B2)
    /\ lastFetch[1] = Some([body |-> B2, css_selector |-> None])
    /\ Len(files) = 1
    /\ files[1].original_url = U1 /\ files[1].change_id = Some(2)
    /\ lastDownload.change = Some(2)
    /\ files[1].content_hash = Some(sha256(Val(lastDownload.bodies[1])))


\* the spellings under which a server may send a header: names of HTTP
\* headers are case-insensitive
Spellings(name) == IF name = "ETag" THEN {"ETag", "Etag"} ELSE {name}

\* the value of the header `name` of a response, None when it has none
HeaderSent(headers, name) ==
    LET present == {n \in Spellings(name) : ~IsNone(headers[n])}
    IN IF present = {} THEN None ELSE headers[CHOOSE n \in present : TRUE]

\* C21: a check that got a body stores the ETag and the Last-Modified header
\* of the response as the validators of the page when the response has
\* them and keeps the cached ones when it has not; every fetch sends
\* If-None-Match and If-Modified-Since for exactly the cached validators.
C21_ValidatorsCached ==
    [][\A p \in DOMAIN pages :
         (Checked(p) /\ Returned(lastCheck'))
         => /\ lastCheck'.request.IfNoneMatch = pages[p].last_etag
            /\ lastCheck'.request.IfModifiedSince = pages[p].last_modified
            /\ lastCheck'.outcome # "NoContent"
               => LET etag == HeaderSent(lastCheck'.response_headers, "ETag")
                      last_modified ==
                          HeaderSent(lastCheck'.response_headers, "Last-Modified")
                  IN /\ pages'[p].last_etag =
                          IF IsNone(etag) THEN pages[p].last_etag ELSE etag
                     /\ pages'[p].last_modified =
                          IF IsNone(last_modified) THEN pages[p].last_modified
                          ELSE last_modified]_vars


\* this step ends the download_files call of job: its gather returned
Resumed(job) == job \in inflight /\ job \notin inflight'

\* this step ends the download_files call of job, and the call returned
DownloadReturned(job) == Resumed(job) /\ lastDownload'.change = job.change_id

\* the rows this step added to downloaded_files
NewFiles == SubSeq(files', Len(files) + 1, Len(files'))

Range(seq) == {seq[i] : i \in 1..Len(seq)}

\* C22 as stated: when a download_files call of a page without stored files
\* returns, every link of the batch whose GET got a 2xx response is
\* persisted as a row and is in the returned list.
C22_Any2xxPersisted ==
    [][\A job \in inflight :
         (DownloadReturned(job) /\ existing_hashes(files, job.page_id) = {})
         => \A i \in 1..Len(job.tasks) :
               lastDownload'.got_2xx[i]
               => /\ job.tasks[i].url \in Range(lastDownload'.returned)
                  /\ \E k \in 1..Len(NewFiles) :
                        NewFiles[k].original_url = job.tasks[i].url]_vars

\* C22: when a download_files call returns, every link of the batch whose
\* GET got a 200 with bytes no stored file of the page has is persisted
\* as a row and is in the returned list, whatever happened to the other
\* links of the batch: those whose GET raised or got another status.
C22_FailureIsPerFile ==
    [][\A job \in inflight :
         DownloadReturned(job)
         => \A i \in 1..Len(job.tasks) :
               LET body == lastDownload'.bodies[i] IN
               /\ ~IsNone(body) => lastDownload'.got_2xx[i]
               /\ (~IsNone(body)
                     /\ sha256(Val(body)) \notin existing_hashes(files, job.page_id))
                  => /\ job.tasks[i].url \in Range(lastDownload'.returned)
                     /\ \E k \in 1..Len(NewFiles) :
                           /\ NewFiles[k].page_id = job.page_id
                           /\ NewFiles[k].original_url = job.tasks[i].url
                           /\ NewFiles[k].content_hash = Some(sha256(Val(body)))]_vars

\* a batch of two links returned: the first download failed, the second one
\* is the one row of the page and the one returned result
C22_Witness ==
    /\ Len(lastDownload.bodies) = 2
    /\ IsNone(lastDownload.bodies[1])
    /\ lastDownload.got_2xx = << FALSE, TRUE >>
    /\ ~IsNone(lastDownload.bodies[2])
    /\ Len(lastDownload.returned) = 1
    /\ Len(files) = 1
    /\ files[1].original_url = lastDownload.returned[1]
    /\ files[1].change_id = lastDownload.change

\* C23: a download_files call that returns has added exactly one row for
\* each result it returns, in their order and under its page and change; a
\* call that raises has added no row: the rows of a call become visible
\* together or not at all.
C23_ReturnedArePersisted ==
    [][\A job \in inflight :
         Resumed(job)
         => /\ SubSeq(files', 1, Len(files)) = files
            /\ IF DownloadReturned(job)
               THEN /\ Len(NewFiles) = Len(lastDownload'.returned)
                    /\ \A k \in 1..Len(NewFiles) :
                          /\ NewFiles[k].original_url = lastDownload'.returned[k]
                          /\ NewFiles[k].page_id = job.page_id
                          /\ NewFiles[k].change_id = job.change_id
               ELSE files' = files]_vars

\* a call returned two results and the table holds their two rows
C23_Witness ==
    /\ Len(lastDownload.returned) = 2
    /\ Len(files) = 2
    /\ \A k \in 1..2 : /\ files[k].original_url = lastDownload.returned[k]
                       /\ files[k].change_id = lastDownload.change

\* C24: the GETs a download_files call issues are for distinct URLs, each a
\* link the check found; when the call ends, no GET is issued again and no
\* job is queued for it, and a link whose download failed is in none of the
\* returned results and none of the new rows, the page and its changes
\* staying as the check committed them.
C24_OneGetPerLink ==
    [][/\ \A job \in inflight' \ inflight :
            /\ \A i, j \in 1..Len(job.tasks) :
                  job.tasks[i].url = job.tasks[j].url => i = j
            /\ TaskUrls(job) \subseteq
                  {lastCheck'.file_links[i].url : i \in 1..Len(lastCheck'.file_links)}
       /\ \A job \in inflight :
            Resumed(job)
            => /\ inflight' = inflight \ {job}
               /\ UNCHANGED <<queue, pages, changes>>
               /\ DownloadReturned(job)
                  => \A i \in 1..Len(job.tasks) :
                        IsNone(lastDownload'.bodies[i])
                        => /\ job.tasks[i].url \notin Range(lastDownload'.returned)
                           /\ \A k \in 1..Len(NewFiles) :
                                 NewFiles[k].original_url # job.tasks[i].url]_vars

\* a batch of two links returned with the second download failed: one row,
\* none for the failed link, no job queued or suspended
C24_Witness ==
    /\ Len(lastDownload.bodies) = 2
    /\ ~IsNone(lastDownload.bodies[1])
    /\ IsNone(lastDownload.bodies[2])
    /\ Len(files) = 1
    /\ lastDownload.returned = << files[1].original_url >>
    /\ inflight = {}
    /\ queue[1] = 0


\* the rows of a table that reference page_id
RowsOf(rows, page_id) == {i \in 1..Len(rows) : rows[i].page_id = page_id}

\* C25: the step that deletes a page leaves no page_changes row and no
\* downloaded_files row of it and keeps the rows of the other pages; and
\* whatever happens later, no row references a page that was deleted.
C25_DeleteCascades ==
    [][/\ \A p \in DOMAIN pages :
            p \notin DOMAIN pages'
            => /\ RowsOf(changes', p) = {} /\ RowsOf(files', p) = {}
               /\ \A q \in DOMAIN pages' :
                     /\ RowsOf(changes', q) = RowsOf(changes, q)
                     /\ RowsOf(files', q) = RowsOf(files, q)
       /\ \A p \in 1..page_seq' :
            p \notin DOMAIN pages'
            => RowsOf(changes', p) = {} /\ RowsOf(files', p) = {}]_vars

\* page 2 had a change and a downloaded file and was deleted: their slots
\* belong to no page, and page 1 is there still
C25_Witness ==
    /\ DOMAIN pages = {1}
    /\ reply.route = "delete_page" /\ reply.status_code = 200 /\ reply.page_id = 2
    /\ Len(changes) >= 1 /\ Len(files) = 1
    /\ files[1].page_id = 0
    /\ files[1].original_url.host = "d"
    /\ \E i \in 1..Len(changes) : changes[i].page_id = 0 /\ files[1].change_id = Some(i)


\* this step is a request of `route` that got a reply
Replied(route) == reply'.route = route /\ reply' # reply

\* C26: no two monitored_pages rows have the same URL, whatever route
\* wrote them; a create_page either stores one page, whose URL no row had,
\* or is rejected with 400 and changes nothing.
C26_UrlUnique ==
    [][/\ \A p, q \in DOMAIN pages' : pages'[p].url = pages'[q].url => p = q
       /\ Replied("create_page")
          => IF reply'.status_code = 200
             THEN /\ DOMAIN pages' = DOMAIN pages \cup {reply'.page_id}
                  /\ reply'.page_id \notin DOMAIN pages
                  /\ \A q \in DOMAIN pages :
                        /\ pages'[q] = pages[q]
                        /\ pages[q].url # pages'[reply'.page_id].url
             ELSE /\ reply'.status_code = 400
                  /\ reply'.detail = "Page with this URL already exists"
                  /\ \E q \in DOMAIN pages : TRUE
                  /\ UNCHANGED <<pages, changes, files, queue, page_seq>>]_vars

\* two pages of different URLs, and the latest request, a create_page, was
\* rejected
C26_Witness ==
    /\ DOMAIN pages = {1, 2}
    /\ pages[1].url # pages[2].url
    /\ reply.route = "create_page"
    /\ reply.status_code = 400

\* the keys of the dict check_page returns for a page it checked
CheckResultKeys == {"changed", "files_found", "files_downloaded"}

\* C27: a check-now request for an existing page answers with the result of
\* the check (changed, files_found, files_downloaded); for a page id without
\* a row it answers 404 and enqueues nothing.
C27_CheckNowReturnsResult ==
    [][Replied("check_page_now")
       => IF reply'.status_code = 404
          THEN /\ \A p \in DOMAIN pages : reply'.page_id # p
               /\ queue' = queue
          ELSE /\ reply'.page_id \in DOMAIN pages
               /\ CheckResultKeys \subseteq reply'.result]_vars

\* C28: a check_page job ends with a result, "no content" when the fetch
\* failed; a call of check_all_pages never raises and returns one entry for
\* each active page it loaded, in their order.
C28_FailureContained ==
    [][/\ \A p \in DOMAIN queue :
            Checked(p)
            => /\ lastCheck'.page = p
               /\ lastCheck'.outcome \in
                     {"Skipped", "Error", "NoContent", "Unchanged", "Changed"}
               /\ \A q \in DOMAIN pages \ {p} : q \in DOMAIN pages' /\ pages'[q] = pages[q]
       /\ sweep'.state # "raised"
       /\ sweep'.state = "returned"
          => [i \in 1..Len(sweep'.results) |-> sweep'.results[i].page_id]
                = sweep'.pages]_vars


\* C29: the end of a download_files call, whatever its downloads and its
\* commit did, leaves the page rows and the page_changes rows as
\* check_page_for_changes committed them; and the step that commits a
\* page_changes row commits no downloaded_files row.
C29_DownloadsApart ==
    [][/\ \A job \in inflight :
            Resumed(job)
            => /\ pages' = pages
               /\ changes' = changes
               /\ Val(job.change_id) \in 1..Len(changes')
               /\ changes'[Val(job.change_id)].page_id = job.page_id
               /\ ~IsNone(pages'[job.page_id].last_content_hash)
       /\ changes' # changes => files' = files]_vars

\* a download_files call returned with every download failed: no file row,
\* and the change and the hash of the page are there
C29_Witness ==
    /\ ~IsNone(lastDownload.change)
    /\ lastDownload.bodies # << >>
    /\ \A i \in 1..Len(lastDownload.bodies) : IsNone(lastDownload.bodies[i])
    /\ files = << >>
    /\ inflight = {}
    /\ Val(lastDownload.change) \in 1..Len(changes)
    /\ ~IsNone(pages[changes[Val(lastDownload.change)].page_id].last_content_hash)


RECURSIVE FirstAppearances(_, _, _)
\* the absolute URLs of the file links of a document, hyperlinks and
\* embed-like elements together, each once, in the order of first appearance
FirstAppearances(content, base_url, acc) ==
    IF content = << >> THEN acc
    ELSE LET e == Head(content)
             absolute_url == urljoin(base_url, Val(e.ref))
         IN IF e.tag \in {"a", "iframe", "embed", "object"} /\ ~IsNone(e.ref)
               /\ absolute_url \notin Range(acc) /\ is_file_url(absolute_url)
            THEN FirstAppearances(Tail(content), base_url, Append(acc, absolute_url))
            ELSE FirstAppearances(Tail(content), base_url, acc)

\* the URLs of a list of file-link dicts
UrlsOf(links) == [i \in 1..Len(links) |-> links[i].url]

\* C30: the links extract_file_links returned for the body of the latest
\* changed check hold each absolute URL once and are in the order in which
\* the URLs first appear in the document.
C30_DocumentOrder ==
    lastCheck.outcome = "Changed"
    => LET file_links == lastCheck.file_links
           fetched == Val(lastFetch[lastCheck.page])
       IN /\ \A i, j \in 1..Len(file_links) :
                file_links[i].url = file_links[j].url => i = j
          /\ UrlsOf(file_links)
                = FirstAppearances(fetched.body, pages[lastCheck.page].url, << >>)


\* the call of fn has returned
Called(fn) == fn_call.fn = fn /\ ~IsNone(fn_call.result)

\* C31: is_file_url answers true exactly for a URL whose path extension,
\* lower-cased, is one of the sixteen listed extensions or whose query,
\* lower-cased, contains download, file or attachment.
C31_FileUrlIff ==
    Called("is_file_url")
    => (Val(fn_call.result)
        <=> \/ /\ fn_call.url.ext # ""
               /\ Lower(fn_call.url.ext) \in
                     {"pdf", "doc", "docx", "xls", "xlsx", "ppt", "pptx", "csv", "txt",
                      "zip", "rar", "tar", "gz", "json", "xml", "rtf"}
            \/ \E token \in {"download", "file", "attachment"} :
                  QueryContains(Lower(fn_call.url.query), token))

\* report.Rtf taken for a file by its extension alone
C31_Witness ==
    /\ Called("is_file_url")
    /\ fn_call.url.ext = "Rtf"
    /\ fn_call.url.query = ""
    /\ Val(fn_call.result)

\* C32: with a selector that matches no element of the body, or that cannot
\* be applied, compute_content_hash returns the fingerprint of the whole
\* body, the one it returns without a selector.
C32_SelectorFallback ==
    (/\ Called("compute_content_hash")
     /\ ~IsNone(fn_call.css_selector)
     /\ \/ SelectRaises(Val(fn_call.css_selector))
        \/ Select(fn_call.content, Val(fn_call.css_selector)) = << >>)
    => /\ Val(fn_call.result) = sha256(fn_call.content)
       /\ Val(fn_call.result) = compute_content_hash(fn_call.content, None)

\* a body with elements, none of class x
C32_Witness ==
    /\ Called("compute_content_hash")
    /\ fn_call.content = B1
    /\ fn_call.css_selector = Some("x")
    /\ Val(fn_call.result) = sha256(B1)


\* C35: every link extract_file_links returns comes from an element of
\* that URL, hyperlink or embed-like, whose inner text is its title, or,
\* when the element has no inner text, the basename of the URL is.
C35_TitleFallback ==
    Called("extract_file_links")
    => LET file_links == Val(fn_call.result) IN
       \A i \in 1..Len(file_links) :
          \E k \in 1..Len(fn_call.content) :
             LET e == fn_call.content[k] IN
             /\ e.tag \in {"a", "iframe", "embed", "object"}
             /\ ~IsNone(e.ref)
             /\ urljoin(fn_call.url, Val(e.ref)) = file_links[i].url
             /\ file_links[i].title =
                   IF e.text # "" THEN e.text ELSE Basename(file_links[i].url)


\* row i of a table is as it was, or the page that owns it is deleted in
\* this step and the row with it
RowKept(before, after, i) ==
    \/ after[i] = before[i]
    \/ /\ before[i].page_id \in DOMAIN pages
       /\ before[i].page_id \notin DOMAIN pages'
       /\ after[i] = [before[i] EXCEPT !.page_id = 0]

\* C33: no step, be it a check, the end of a download_files call, a
\* notification or a request of the API, changes a field of a page_changes
\* row or of a downloaded_files row that is there; a row goes only with
\* its page.
C33_RowsImmutable ==
    [][/\ Len(changes') >= Len(changes)
       /\ Len(files') >= Len(files)
       /\ \A i \in 1..Len(changes) : RowKept(changes, changes', i)
       /\ \A i \in 1..Len(files) : RowKept(files, files', i)]_vars

\* page 2 has a file row of its first change, a notification was sent for
\* it, page 1 has changed since and page 2 was checked again
C33_Witness ==
    /\ Len(files) = 1
    /\ files[1].page_id = 2
    /\ files[1].change_id = Some(1)
    /\ sent = <<1>>
    /\ Len(changes) = 2
    /\ changes[1].page_id = 2
    /\ lastCheck.page = 2
    /\ lastCheck.outcome = "Unchanged"


\* C34: downloaded_files rows are added only by the end of a download_files
\* call, and each new row is of a task of the call whose GET got a
\* successful response, whose bytes were written to the stored path of the
\* row and hash to its content_hash; a task whose download failed has no
\* new row.
C34_RowsFromSuccessfulDownloads ==
    [][/\ files' # files => \E job \in inflight : DownloadReturned(job)
       /\ \A job \in inflight :
            DownloadReturned(job)
            => /\ \A k \in 1..Len(NewFiles) :
                     \E i \in 1..Len(job.tasks) :
                        /\ NewFiles[k].original_url = job.tasks[i].url
                        /\ NewFiles[k].page_id = job.page_id
                        /\ lastDownload'.got_2xx[i]
                        /\ ~IsNone(lastDownload'.bodies[i])
                        /\ NewFiles[k].content_hash
                              = Some(sha256(Val(lastDownload'.bodies[i])))
                        /\ lastDownload'.written[i] = Some(NewFiles[k].stored_filename)
               /\ \A i \in 1..Len(job.tasks) :
                     IsNone(lastDownload'.bodies[i])
                     => /\ IsNone(lastDownload'.written[i])
                        /\ \A k \in 1..Len(NewFiles) :
                              NewFiles[k].original_url # job.tasks[i].url]_vars

\* a batch of two links returned, the second download failed: the one row
\* is of the first, with the hash of its bytes and the path they went to
C34_Witness ==
    /\ Len(lastDownload.bodies) = 2
    /\ ~IsNone(lastDownload.bodies[1])
    /\ IsNone(lastDownload.bodies[2])
    /\ Len(files) = 1
    /\ files[1].content_hash = Some(sha256(Val(lastDownload.bodies[1])))
    /\ lastDownload.written = << Some(files[1].stored_filename), None >>


\* this step is a check of page p that returned changed=true
ReturnedChanged(p) ==
    /\ lastCheck' # lastCheck
    /\ lastCheck'.page = p
    /\ lastCheck'.changed

\* C37: a page with last_content_hash set has a page_changes row, and a
\* step adds one row to the rows of a page when it is a check of the page
\* that returns changed=true, and none otherwise.
C37_ChangeRowsCountChanges ==
    [][\A p \in DOMAIN pages' :
          /\ ~IsNone(pages'[p].last_content_hash) => RowsOf(changes', p) # {}
          /\ p \in DOMAIN pages
             => Cardinality(RowsOf(changes', p))
                   = Cardinality(RowsOf(changes, p))
                       + (IF ReturnedChanged(p) THEN 1 ELSE 0)]_vars

\* the page has changed twice and its latest check found it unchanged
C37_Witness ==
    /\ Cardinality(RowsOf(changes, 1)) = 2
    /\ ~IsNone(pages[1].last_content_hash)
    /\ lastCheck.page = 1
    /\ lastCheck.outcome = "Unchanged"

\* C38: every downloaded_files row of a page names a page_changes row of
\* the same page; the rows a download_files call adds name the change of
\* its job, which is the change the check that started the job returned.
C38_FileNamesItsChange ==
    [][/\ \A i \in 1..Len(files') :
            files'[i].page_id # 0
            => /\ ~IsNone(files'[i].change_id)
               /\ Val(files'[i].change_id) \in 1..Len(changes')
               /\ changes'[Val(files'[i].change_id)].page_id = files'[i].page_id
       /\ \A job \in inflight :
            Resumed(job)
            => \A k \in 1..Len(NewFiles) :
                  /\ NewFiles[k].change_id = job.change_id
                  /\ NewFiles[k].page_id = job.page_id
       /\ \A job \in inflight' \ inflight :
            /\ job.change_id = lastCheck'.change
            /\ job.page_id = lastCheck'.page
            /\ lastCheck'.changed]_vars

\* pages 1 and 2 changed in turn, and the file row of page 2 names the
\* second change
C38_Witness ==
    /\ Len(changes) = 2
    /\ changes[1].page_id = 1
    /\ changes[2].page_id = 2
    /\ Len(files) = 1
    /\ files[1].page_id = 2
    /\ files[1].change_id = Some(2)

\* C39: last_changed_at is set exactly when last_content_hash is, then
\* last_checked_at is set as well, and no step of a check clears one of the
\* three.
C39_TimestampsWithHash ==
    [][\A p \in DOMAIN pages' :
          /\ IsNone(pages'[p].last_changed_at) <=> IsNone(pages'[p].last_content_hash)
          /\ ~IsNone(pages'[p].last_changed_at) => ~IsNone(pages'[p].last_checked_at)
          /\ p \in DOMAIN pages
             => /\ ~IsNone(pages[p].last_content_hash)
                      => ~IsNone(pages'[p].last_content_hash)
                /\ ~IsNone(pages[p].last_changed_at)
                      => ~IsNone(pages'[p].last_changed_at)
                /\ ~IsNone(pages[p].last_checked_at)
                      => ~IsNone(pages'[p].last_checked_at)]_vars

\* the page changed at one time and was checked, unchanged, at a later one
C39_Witness ==
    /\ ~IsNone(pages[1].last_content_hash)
    /\ ~IsNone(pages[1].last_changed_at)
    /\ ~IsNone(pages[1].last_checked_at)
    /\ Val(pages[1].last_checked_at) > Val(pages[1].last_changed_at)
    /\ lastCheck.outcome = "Unchanged"


\* the clock has a minute to go: one more run of cron is to come
CronRunAhead == now + CronPeriod <= MaxLiveTime

\* C36: every run of schedule_page_checks enqueues the active pages that
\* are due, so the first run after the creation of a page and the first at
\* or after last_checked_at + interval do; an active page that was never
\* checked gets its check, and one that was checked at t gets a check at or
\* after t + interval, unless a job that was queued before has checked it
\* again meanwhile (as far as the clock of the model goes).
C36_CheckedAgainAndAgain ==
    /\ [][(Ticked /\ lastTick'.outcome = "scheduled")
          => \A p \in ActivePages(pages) :
                IsDue(pages[p], now) => EnqueuedNow(p)]_vars
    /\ \A p \in SchedPageIds :
          (/\ pages[p].is_active
           /\ IsNone(pages[p].last_checked_at)
           /\ CronRunAhead)
             ~> (fetching = Some(p))
    /\ \A p \in SchedPageIds : \A t \in LiveTimes :
          (/\ pages[p].is_active
           /\ pages[p].last_checked_at = Some(t)
           /\ t + Interval(pages[p].frequency) <= MaxLiveTime
           /\ CronRunAhead)
             ~> \/ fetching = Some(p) /\ now >= t + Interval(pages[p].frequency)
                \/ pages[p].last_checked_at # Some(t)

\* page 1 is being checked for the second time, five minutes or more after
\* the first
C36_Witness ==
    /\ fetching = Some(1)
    /\ ~IsNone(pages[1].last_checked_at)
    /\ Val(pages[1].last_checked_at) > 0
    /\ now >= Val(pages[1].last_checked_at) + Minutes(5)

====
